---------------------------- MODULE Spec2Model ----------------------------
(***************************************************************************)
(* Volume filtering (openvdb/agents/Filter.h): the Filter object, its      *)
(* configuration, the mean / gaussian / median / offset operations, the    *)
(* per-pass dispatch of cook() and the leaf buffers it works on.           *)
(*                                                                         *)
(* Values.  A ValueType value is an integer number of units.  Sums and     *)
(* differences are exact; a product with a fraction (the 1/(2w+1) of the   *)
(* box average, the alpha/beta weights of a masked pass) is converted back *)
(* to ValueType by static_cast, which drops what a unit cannot hold.  The  *)
(* history variable inexact records whether a conversion of the current    *)
(* call lost anything: "in exact arithmetic" is ~inexact.                  *)
(***************************************************************************)
EXTENDS Integers, Sequences, FiniteSets

\* ------------------------------------------------------------------------
\* Bounds of the model
\* ------------------------------------------------------------------------
LeafDim == 2        \* voxels per leaf edge (a leaf holds LeafDim^3 voxels)
MaxIter == 2        \* largest iteration count passed to mean/gaussian/median

\* ------------------------------------------------------------------------
\* Coordinates, leaves
\* ------------------------------------------------------------------------
\* Origin of the leaf that holds xyz (xyz & ~(DIM-1)).
LeafOrigin(xyz) == [k \in 1..3 |-> xyz[k] - (xyz[k] % LeafDim)]

\* Coordinates stored by the leaf at origin o.
LeafCoords(o) ==
    {<<o[1] + i, o[2] + j, o[3] + k>> : i \in 0..(LeafDim-1), j \in 0..(LeafDim-1), k \in 0..(LeafDim-1)}

AllLeafCoords(origins) == UNION {LeafCoords(o) : o \in origins}

\* The sum of s[lo..hi], and of the whole sequence.
RECURSIVE SumRange(_, _, _)
SumRange(s, lo, hi) ==
    IF lo > hi THEN 0
    ELSE IF lo = hi THEN s[lo]
    ELSE LET mid == (lo + hi) \div 2
         IN  SumRange(s, lo, mid) + SumRange(s, mid + 1, hi)

SumSeq(s) == SumRange(s, 1, Len(s))

Range(s) == {s[i] : i \in DOMAIN s}

Max(a, b) == IF a > b THEN a ELSE b


\* ------------------------------------------------------------------------
\* Value arithmetic
\* ------------------------------------------------------------------------
\* static_cast<ValueType>(num / den): the part of the quotient a unit holds.
Cast(num, den) == num \div den

\* TRUE iff the conversion of num / den loses nothing.
Exact(num, den) == num % den = 0

\* filter_internal::accum for an arithmetic ValueType: sum += addend.
accum(sum, addend) == sum + addend

\* ------------------------------------------------------------------------
\* The grid: a tree of leaves over a background, and the LeafManager's view
\* ------------------------------------------------------------------------
\* A grid record g has the fields
\*   leafSet     the origins of the tree's leaf nodes
\*   valueMask   the active voxels (the leaves' value masks)
\*   buffer0     the leaves' primary buffers, [coordinate -> value]
\*   background  the tree's background value
\*   leafArray   the LeafManager's array of leaves (a sequence of origins)
\*   auxBuffer   the LeafManager's buffer 1 of every leaf, [coordinate -> value]
\*               (empty when the manager was built with no auxiliary buffer)

\* ValueAccessor::getValue: a stored voxel value (active or not), the
\* background where no leaf exists.
getValue(g, xyz) ==
    IF LeafOrigin(xyz) \in g.leafSet THEN g.buffer0[xyz] ELSE g.background

\* The voxels a task over the leaf range r = <<begin, end>> iterates:
\* cbeginValueOn() of every leaf of the range.
\* Mutation of RangeLeaves: a range reaches every leaf of the array.
RangeLeavesAll(g, r) == {g.leafArray[i] : i \in DOMAIN g.leafArray}

RangeLeaves(g, r) == {g.leafArray[i] : i \in (r[1] + 1)..r[2]}

RangeOnVoxels(g, r) == AllLeafCoords(RangeLeaves(g, r)) \cap g.valueMask

\* The alpha pair of a voxel.  No mask: a = 1, b = 0.  With a mask the pair
\* is a/D, b/D with a + b = D.
NoAlpha == [a |-> 1, b |-> 0, D |-> 1]

\* The mask grids a caller may pass (index 0 is the null pointer): grid 1
\* varies along every axis, grid 2 only between leaves along x.
MaskIds == {1, 2}

MaskGridValue(id, xyz) ==
    IF id = 1 THEN (xyz[1] + xyz[2] + xyz[3]) % 3 ELSE (xyz[1] \div LeafDim) % 3

\* AlphaMask::operator(): the mask value mapped linearly from [min, max] to
\* [0, 1], clamped outside, a and b exchanged when inverted.
AlphaMask(id, min, max, invert, xyz) ==
    LET D  == max - min
        m  == MaskGridValue(id, xyz) - min
        a0 == IF m < 0 THEN 0 ELSE IF m > D THEN D ELSE m
    IN  IF invert THEN [a |-> D - a0, b |-> a0, D |-> D]
                  ELSE [a |-> a0, b |-> D - a0, D |-> D]

\* The alpha pair the filter F (its mMask, mMinMask, mMaxMask, mInvertMask)
\* uses at xyz.
alpha(F, xyz) ==
    IF F.mMask = 0 THEN NoAlpha
    ELSE AlphaMask(F.mMask, F.mMinMask.v, F.mMaxMask.v, F.mInvertMask, xyz)

\* ------------------------------------------------------------------------
\* Filter::Avg<Axis>::operator()
\* ------------------------------------------------------------------------
\* for (i -= width; i <= j; ++i) accum(sum, acc.getValue(xyz))
RECURSIVE AvgLoop(_, _, _, _, _, _)
AvgLoop(g, Axis, xyz, i, j, sum) ==
    IF i > j THEN sum
    ELSE AvgLoop(g, Axis, xyz, i + 1, j, accum(sum, getValue(g, [xyz EXCEPT ![Axis + 1] = i])))

\* The average with the loop stopping one voxel early (i < j).
AvgOpenWindow(g, Axis, width, xyz) ==
    Cast(AvgLoop(g, Axis, xyz, xyz[Axis + 1] - width, xyz[Axis + 1] + width - 1, 0), 2 * width + 1)

AvgSum(g, Axis, width, xyz) ==
    AvgLoop(g, Axis, xyz, xyz[Axis + 1] - width, xyz[Axis + 1] + width, 0)

Avg(g, Axis, width, xyz) == Cast(AvgSum(g, Axis, width, xyz), 2 * width + 1)

\* ------------------------------------------------------------------------
\* DenseStencil: the (2w+1)^3 values around a voxel and their median
\* ------------------------------------------------------------------------
StencilSize(width) == (2 * width + 1) * (2 * width + 1) * (2 * width + 1)

StencilValues(g, width, xyz) ==
    LET s == 2 * width + 1
    IN  [n \in 1..StencilSize(width) |->
            getValue(g, <<xyz[1] + ((n - 1) \div (s * s)) - width,
                          xyz[2] + (((n - 1) \div s) % s) - width,
                          xyz[3] + ((n - 1) % s) - width>>)]

\* The element of index k (0-based) of vals sorted ascending.
SortedAt(vals, k) ==
    CHOOSE v \in Range(vals) :
        /\ Cardinality({i \in DOMAIN vals : vals[i] < v}) <= k
        /\ Cardinality({i \in DOMAIN vals : vals[i] <= v}) > k

\* BaseStencil::median(): the element at the midpoint (size - 1) >> 1.
StencilMedian(g, width, xyz) ==
    LET vals == StencilValues(g, width, xyz)
    IN  SortedAt(vals, (Len(vals) - 1) \div 2)

\* ------------------------------------------------------------------------
\* The tasks run over a leaf range
\* ------------------------------------------------------------------------
\* The weights exchanged: a*original + b*filtered.
BlendSwapped(al, original, filtered) == Cast(al.a * original + al.b * filtered, al.D)

\* b*original + a*filtered, converted to ValueType.
Blend(al, original, filtered) == Cast(al.b * original + al.a * filtered, al.D)

\* The voxels of the range that the task writes: with a mask, those whose
\* alpha is positive (AlphaMask::operator() returns a > 0).
Written(F, g, r) == {c \in RangeOnVoxels(g, r) : alpha(F, c).a > 0}

\* LeafBuffer::setValue on buffer 1 of the leaves: values only.
SetAux(g, values) ==
    [g EXCEPT !.auxBuffer = [c \in DOMAIN g.auxBuffer |->
                                IF c \in DOMAIN values THEN values[c] ELSE g.auxBuffer[c]]]

\* ValueOnIter::setValue on the leaves themselves: buffer 0, values only.
SetPrimary(g, values) ==
    [g EXCEPT !.buffer0 = [c \in DOMAIN g.buffer0 |->
                              IF c \in DOMAIN values THEN values[c] ELSE g.buffer0[c]]]

\* A box pass that would write the leaf's own buffer instead of buffer 1.
doBoxInPlace(F, g, r, Axis, w) ==
    LET value(c) == Blend(alpha(F, c), g.buffer0[c], Avg(g, Axis, w, c))
    IN  SetPrimary(g, [c \in Written(F, g, r) |-> value(c)])

\* Mutation of doBox: the pass visits every voxel of the leaves, the
\* inactive ones as well (cbeginValueAll for cbeginValueOn).
doBoxValueAll(F, g, r, Axis, w) ==
    LET value(c) == Blend(alpha(F, c), g.buffer0[c], Avg(g, Axis, w, c))
    IN  SetAux(g, [c \in {v \in AllLeafCoords(RangeLeaves(g, r)) : alpha(F, v).a > 0} |-> value(c)])

\* Filter::doBox<Avg<Axis>>
doBox(F, g, r, Axis, w) ==
    LET value(c) == Blend(alpha(F, c), g.buffer0[c], Avg(g, Axis, w, c))
    IN  SetAux(g, [c \in Written(F, g, r) |-> value(c)])

doBoxX(F, g, r, w) == doBox(F, g, r, 0, w)
doBoxZ(F, g, r, w) == doBox(F, g, r, 1, w)
doBoxY(F, g, r, w) == doBox(F, g, r, 2, w)

\* A median pass that would write the leaf's own buffer instead of buffer 1.
doMedianInPlace(F, g, r, width) ==
    LET value(c) == Blend(alpha(F, c), g.buffer0[c], StencilMedian(g, width, c))
    IN  SetPrimary(g, [c \in Written(F, g, r) |-> value(c)])

\* Filter::doMedian
doMedian(F, g, r, width) ==
    LET value(c) == Blend(alpha(F, c), g.buffer0[c], StencilMedian(g, width, c))
    IN  SetAux(g, [c \in Written(F, g, r) |-> value(c)])

\* An offset that would visit every voxel of the leaves and write with
\* setValueOn, which activates the voxel it writes.
doOffsetSetValueOn(F, g, r, offsetValue) ==
    LET W == AllLeafCoords(RangeLeaves(g, r))
        value(c) == Cast(alpha(F, c).D * g.buffer0[c] + alpha(F, c).a * offsetValue, alpha(F, c).D)
    IN  [SetPrimary(g, [c \in W |-> value(c)]) EXCEPT !.valueMask = @ \cup W]

\* Filter::doOffset: *iter + a*offset, written through the leaf's iterator.
doOffset(F, g, r, offsetValue) ==
    LET value(c) == Cast(alpha(F, c).D * g.buffer0[c] + alpha(F, c).a * offsetValue, alpha(F, c).D)
    IN  SetPrimary(g, [c \in Written(F, g, r) |-> value(c)])


\* ------------------------------------------------------------------------
\* State
\* ------------------------------------------------------------------------
VARIABLES
    \* the grid being filtered (mGrid)
    leafSet, valueMask, buffer0, background,
    \* the Filter object
    mTask, mInterrupter, mMask, mGrainSize, mMinMask, mMaxMask, mInvertMask,
    \* the LeafManager "leafs" of the call in progress
    leafs,
    \* the call in progress: where it is, its arguments, its loop counters
    pc, call, i, n, step,
    \* the parallel_for of the pass in progress: its tasks and its group
    tasks, cancelled,
    \* the interrupter: signalled or not, calls of start() and end()
    interrupted, startCalls, endCalls,
    \* the outcome of the last call of the interface
    thrown, calls,
    \* history: the primary buffers when the call and when the pass began,
    \* conversions that lost something, the passes of the call, what ran
    \* multithreaded, the passes dispatched after the interrupter's signal,
    \* the leaf ranges the cancelled group of the last pass never ran, the
    \* primary buffers at construction, the operations called so far, the
    \* arguments of the last setMaskRange
    ref, prev, inexact, passLog, threaded, lateCooks, skipped, first, callLog, lastArgs,
    \* the tree the morphology operations work on: the value mask of each
    \* leaf node, the active leaf-sized tiles, the tree before the first
    \* operation and the operations called on it
    leafMasks, activeTiles, seed, morphLog,
    \* the point data tree: the attribute arrays and voxel offsets of each
    \* leaf, the groups of the descriptor the leaves share, the tree and the
    \* groups before deleteFromGroups and the arguments it was called with
    pointTree, groupMap, pointsBefore, deleteLog,
    \* the attribute registry's lock (held or not, how often it was acquired
    \* and released) and the call of deleteFromGroups in progress: where it
    \* is, its arguments, the leaves its parallel_for has yet to visit
    registryLock, deleteCall,
    \* the operator-based statistics: the tree the iterator runs over, the
    \* operator, the items the iterator has yet to reach, the statistics
    \* accumulated and the coordinates the operator was applied at
    statsTree, mOp, iterItems, mStats, applied,
    \* the quadrature: the arguments of trapezoidal, its local variables
    \* and the points the integrand was evaluated at
    quadArgs, quadState, samples,
    \* computeVoxelSize: its arguments, its local variables
    sizeArgs, sizeState

gridVars   == <<leafSet, valueMask, buffer0, background>>
filterVars == <<mTask, mInterrupter, mMask, mGrainSize, mMinMask, mMaxMask, mInvertMask>>
callVars   == <<leafs, pc, call, i, n, step, tasks, cancelled>>
envVars    == <<interrupted, startCalls, endCalls, thrown, calls>>
morphVars  == <<leafMasks, activeTiles, seed, morphLog>>
pointVars  == <<pointTree, groupMap, pointsBefore, deleteLog, registryLock, deleteCall>>
statVars   == <<statsTree, mOp, iterItems, mStats, applied>>
quadVars   == <<quadArgs, quadState, samples>>
sizeVars   == <<sizeArgs, sizeState>>
restVars   == <<statVars, quadVars, sizeVars>>
otherVars  == <<morphVars, pointVars, restVars>>
histVars   == <<ref, prev, inexact, passLog, threaded, lateCooks, skipped, first, otherVars, callLog, lastArgs>>
filterHist == <<ref, prev, inexact, passLog, threaded, lateCooks, skipped, first, callLog, lastArgs>>
coreVars   == <<gridVars, filterVars, callVars, envVars, filterHist, morphVars, pointVars>>
vars       == <<gridVars, filterVars, callVars, envVars, histVars>>

\* AlphaType values: a number, or NaN (which compares false with everything).
Alpha(k) == [nan |-> FALSE, v |-> k]
NaN      == [nan |-> TRUE, v |-> 0]
Less(x, y) == ~x.nan /\ ~y.nan /\ x.v < y.v

NoTask    == [fn |-> "null", arg |-> 0]
NoManager == [leafArray |-> <<>>, auxBuffersPerLeaf |-> 0, auxBuffer |-> <<>>, serial |-> TRUE]
NoCall    == [op |-> "none", w |-> 0, iterations |-> 0]

\* The filter's fields a task reads, and the grid as the tasks see it.
F == [mMask |-> mMask, mMinMask |-> mMinMask, mMaxMask |-> mMaxMask, mInvertMask |-> mInvertMask]

G == [leafSet |-> leafSet, valueMask |-> valueMask, buffer0 |-> buffer0, background |-> background,
      leafArray |-> leafs.leafArray, auxBuffer |-> leafs.auxBuffer]


\* ------------------------------------------------------------------------
\* LeafManager
\* ------------------------------------------------------------------------
\* The tree's leaves in traversal order (by x, then y, then z of the origin).
Before(o1, o2) ==
    \/ o1[1] < o2[1]
    \/ o1[1] = o2[1] /\ o1[2] < o2[2]
    \/ o1[1] = o2[1] /\ o1[2] = o2[2] /\ o1[3] < o2[3]

RECURSIVE LeafOrder(_)
LeafOrder(origins) ==
    IF origins = {} THEN <<>>
    ELSE LET head == CHOOSE o \in origins : \A q \in origins \ {o} : Before(o, q)
         IN  <<head>> \o LeafOrder(origins \ {head})

\* LeafManager(tree, auxBuffersPerLeaf, serial): the leaf array, and the
\* auxiliary buffers, each a copy of its leaf's buffer.
LeafManager(auxBuffersPerLeaf, serial) ==
    [leafArray         |-> LeafOrder(leafSet),
     auxBuffersPerLeaf |-> auxBuffersPerLeaf,
     auxBuffer         |-> IF auxBuffersPerLeaf >= 1 THEN buffer0 ELSE <<>>,
     serial            |-> serial]

\* LeafRange::is_divisible and the splitting constructor: a range larger than
\* the grain size splits at its middle.  The partitioner may stop splitting
\* anywhere, so the tasks of a parallel_for are any such partition.
RECURSIVE Partitions(_, _)
Partitions(r, grainsize) ==
    IF r[2] - r[1] > grainsize /\ r[2] - r[1] > 1
    THEN LET middle == r[1] + (r[2] - r[1]) \div 2
         IN  {{r}} \cup {P \cup Q : P \in Partitions(<<r[1], middle>>, grainsize),
                                   Q \in Partitions(<<middle, r[2]>>, grainsize)}
    ELSE {{r}}

\* leafs.leafRange(): the whole array.
leafRange == <<0, Len(leafs.leafArray)>>

\* swapLeafBuffer(bufferIdx, serial): exchanges every leaf's buffer with its
\* auxiliary buffer bufferIdx; nothing when the manager has no such buffer.
swapLeafBuffer(g, auxBuffersPerLeaf, bufferIdx) ==
    IF bufferIdx = 0 \/ bufferIdx > auxBuffersPerLeaf THEN g
    ELSE [g EXCEPT !.buffer0 = g.auxBuffer, !.auxBuffer = g.buffer0]

\* ------------------------------------------------------------------------
\* Filter: tasks
\* ------------------------------------------------------------------------
\* util::wasInterrupted(mInterrupter)
wasInterrupted == mInterrupter /\ interrupted

\* mTask(this, range): the bound member function applied to the range.
runTask(task, f, g, r) ==
    CASE task.fn = "doBoxX"   -> doBoxX(f, g, r, task.arg)
      [] task.fn = "doBoxY"   -> doBoxY(f, g, r, task.arg)
      [] task.fn = "doBoxZ"   -> doBoxZ(f, g, r, task.arg)
      [] task.fn = "doMedian" -> doMedian(f, g, r, task.arg)
      [] task.fn = "doOffset" -> doOffset(f, g, r, task.arg)

\* An operator() that would return without a word when no task is bound.
operatorCallSilent(task, f, g, r) ==
    IF task.fn # "null" THEN [g |-> runTask(task, f, g, r), thrown |-> "none"]
    ELSE [g |-> g, thrown |-> "none"]

\* Filter::operator(): the task if one is bound, ValueError otherwise.
operatorCall(task, f, g, r) ==
    IF task.fn # "null" THEN [g |-> runTask(task, f, g, r), thrown |-> "none"]
    ELSE [g |-> g, thrown |-> "ValueError"]

\* The axis a box task averages along (the Axis of its Avg<Axis>).
TaskAxis(fn) == CASE fn = "doBoxX" -> 0 [] fn = "doBoxZ" -> 1 [] fn = "doBoxY" -> 2 [] OTHER -> -1

\* History: TRUE iff some conversion of the task over r loses something.
TaskInexact(task, f, g, r) ==
    \E c \in Written(f, g, r) :
        LET al == alpha(f, c)
        IN  CASE task.fn \in {"doBoxX", "doBoxY", "doBoxZ"} ->
                   \/ ~Exact(AvgSum(g, TaskAxis(task.fn), task.arg, c), 2 * task.arg + 1)
                   \/ ~Exact(al.b * g.buffer0[c] + al.a * Avg(g, TaskAxis(task.fn), task.arg, c), al.D)
              [] task.fn = "doMedian" ->
                   ~Exact(al.b * g.buffer0[c] + al.a * StencilMedian(g, task.arg, c), al.D)
              [] task.fn = "doOffset" -> ~Exact(al.a * task.arg, al.D)
              [] OTHER -> FALSE


\* ------------------------------------------------------------------------
\* Filter: configuration
\* ------------------------------------------------------------------------
Idle == pc = "idle"

setGrainSize(grainsize) ==
    /\ Idle
    /\ mGrainSize' = grainsize
    /\ thrown' = "none"
    /\ lastArgs' = <<>>
    /\ UNCHANGED <<gridVars, mTask, mInterrupter, mMask, mMinMask, mMaxMask, mInvertMask,
                   callVars, interrupted, startCalls, endCalls, calls,
                   ref, prev, inexact, passLog, threaded, lateCooks, skipped, first, otherVars, callLog>>

\* A check that would reject only min > max.
setMaskRangeAcceptsEqual(old, min, max) ==
    IF Less(max, min) THEN [range |-> old, thrown |-> "ValueError"]
    ELSE [range |-> <<min, max>>, thrown |-> "none"]

\* The range setMaskRange stores, given the one it holds.
setMaskRangeResult(old, min, max) ==
    IF ~Less(min, max) THEN [range |-> old, thrown |-> "ValueError"]
    ELSE [range |-> <<min, max>>, thrown |-> "none"]

setMaskRange(min, max) ==
    /\ Idle
    /\ LET res == setMaskRangeResult(<<mMinMask, mMaxMask>>, min, max)
       IN  /\ mMinMask' = res.range[1]
           /\ mMaxMask' = res.range[2]
           /\ thrown' = res.thrown
    /\ lastArgs' = <<min, max>>
    /\ UNCHANGED <<gridVars, mTask, mInterrupter, mMask, mGrainSize, mInvertMask,
                   callVars, interrupted, startCalls, endCalls, calls,
                   ref, prev, inexact, passLog, threaded, lateCooks, skipped, first, otherVars, callLog>>

invertMask(invert) ==
    /\ Idle
    /\ mInvertMask' = invert
    /\ thrown' = "none"
    /\ lastArgs' = <<>>
    /\ UNCHANGED <<gridVars, mTask, mInterrupter, mMask, mGrainSize, mMinMask, mMaxMask,
                   callVars, interrupted, startCalls, endCalls, calls,
                   ref, prev, inexact, passLog, threaded, lateCooks, skipped, first, otherVars, callLog>>

\* ------------------------------------------------------------------------
\* Filter: the filtering operations, up to their first pass
\* ------------------------------------------------------------------------
\* What every operation does on entry: mMask = mask, start() on the
\* interrupter, the LeafManager.
Enter(op, arg, iterations, mask, auxBuffersPerLeaf) ==
    /\ Idle
    /\ mMask' = mask
    /\ startCalls' = IF mInterrupter THEN 1 ELSE 0
    /\ endCalls' = 0
    /\ leafs' = LeafManager(auxBuffersPerLeaf, mGrainSize = 0)
    /\ call' = [op |-> op, w |-> arg, iterations |-> iterations]
    /\ i' = 0
    /\ n' = 0
    /\ step' = 0
    /\ thrown' = "none"
    /\ ref' = buffer0
    /\ prev' = buffer0
    /\ inexact' = FALSE
    /\ passLog' = <<>>
    /\ threaded' = IF mGrainSize = 0 THEN {} ELSE {"leafs"}
    /\ lateCooks' = 0
    /\ skipped' = {}
    /\ callLog' = Append(callLog, [op |-> op, arg |-> arg, mask |-> mask, grainsize |-> mGrainSize])
    /\ lastArgs' = <<>>
    /\ UNCHANGED <<gridVars, mInterrupter, mGrainSize, mMinMask, mMaxMask, mInvertMask,
                   tasks, cancelled, interrupted, calls, first, otherVars>>

\* A mean that would hand the width on as it is.
meanNoClamp(width, iterations, mask) ==
    /\ Enter("mean", width, iterations, mask, 1)
    /\ pc' = "loop"
    /\ UNCHANGED mTask

mean(width, iterations, mask) ==
    /\ Enter("mean", Max(1, width), iterations, mask, 1)
    /\ pc' = "loop"
    /\ UNCHANGED mTask

gaussian(width, iterations, mask) ==
    /\ Enter("gaussian", Max(1, width), iterations, mask, 1)
    /\ pc' = "loop"
    /\ UNCHANGED mTask

median(width, iterations, mask) ==
    /\ Enter("median", Max(1, width), iterations, mask, 1)
    /\ mTask' = [fn |-> "doMedian", arg |-> Max(1, width)]
    /\ pc' = "loop"

\* An offset that would build its LeafManager with one auxiliary buffer.
offsetWithAux(value, mask) ==
    /\ Enter("offset", value, 1, mask, 1)
    /\ mTask' = [fn |-> "doOffset", arg |-> value]
    /\ pc' = "cook"

offset(value, mask) ==
    /\ Enter("offset", value, 1, mask, 0)
    /\ mTask' = [fn |-> "doOffset", arg |-> value]
    /\ pc' = "cook"

\* ------------------------------------------------------------------------
\* Filter: the loops of mean, gaussian and median
\* ------------------------------------------------------------------------
loopFrame == <<gridVars, mInterrupter, mMask, mGrainSize, mMinMask, mMaxMask, mInvertMask,
               leafs, call, tasks, cancelled, envVars, histVars>>

\* for (i = 0; i < iterations && !wasInterrupted(); ++i) { mTask = doBoxX; ...
meanLoop ==
    /\ pc = "loop" /\ call.op = "mean"
    /\ IF i < call.iterations /\ ~wasInterrupted
       THEN /\ mTask' = [fn |-> "doBoxX", arg |-> call.w]
            /\ step' = 0
            /\ pc' = "cook"
       ELSE /\ pc' = "end"
            /\ UNCHANGED <<mTask, step>>
    /\ UNCHANGED <<i, n, loopFrame>>

\* The loops of gaussian without the interrupter in the inner condition.
gaussianLoopNoPoll ==
    /\ pc = "loop" /\ call.op = "gaussian"
    /\ IF i >= call.iterations
       THEN /\ pc' = "end"
            /\ UNCHANGED <<mTask, step, i, n>>
       ELSE IF n < 4
       THEN /\ mTask' = [fn |-> "doBoxX", arg |-> call.w]
            /\ step' = 0
            /\ pc' = "cook"
            /\ UNCHANGED <<i, n>>
       ELSE /\ i' = i + 1
            /\ n' = 0
            /\ UNCHANGED <<pc, mTask, step>>
    /\ UNCHANGED loopFrame

\* for (i = 0; i < iterations; ++i) for (n = 0; n < 4 && !wasInterrupted(); ++n) { ...
gaussianLoop ==
    /\ pc = "loop" /\ call.op = "gaussian"
    /\ IF i >= call.iterations
       THEN /\ pc' = "end"
            /\ UNCHANGED <<mTask, step, i, n>>
       ELSE IF n < 4 /\ ~wasInterrupted
       THEN /\ mTask' = [fn |-> "doBoxX", arg |-> call.w]
            /\ step' = 0
            /\ pc' = "cook"
            /\ UNCHANGED <<i, n>>
       ELSE /\ i' = i + 1
            /\ n' = 0
            /\ UNCHANGED <<pc, mTask, step>>
    /\ UNCHANGED loopFrame

\* for (i = 0; i < iterations && !wasInterrupted(); ++i) cook(leafs);
medianLoop ==
    /\ pc = "loop" /\ call.op = "median"
    /\ IF i < call.iterations /\ ~wasInterrupted
       THEN pc' = "cook"
       ELSE pc' = "end"
    /\ UNCHANGED <<mTask, step, i, n, loopFrame>>


\* ------------------------------------------------------------------------
\* Filter::cook
\* ------------------------------------------------------------------------
\* The grid and the manager's buffers after a task or a swap gave g.
Store(g) ==
    /\ leafSet' = g.leafSet
    /\ valueMask' = g.valueMask
    /\ buffer0' = g.buffer0
    /\ background' = g.background
    /\ leafs' = [leafs EXCEPT !.auxBuffer = g.auxBuffer]

cookFrame == <<filterVars, call, i, n, step, interrupted, startCalls, endCalls, calls,
               ref, first, otherVars, callLog, lastArgs>>

\* mGrainSize <= 0: (*this)(leafs.leafRange()) on the calling thread.
cookSerial ==
    /\ pc = "cook" /\ ~(mGrainSize > 0)
    /\ LET res == operatorCall(mTask, F, G, leafRange)
       IN  /\ Store(res.g)
           /\ thrown' = res.thrown
    /\ prev' = buffer0
    /\ inexact' = (inexact \/ TaskInexact(mTask, F, G, leafRange))
    /\ passLog' = Append(passLog, mTask.fn)
    /\ lateCooks' = lateCooks + (IF wasInterrupted THEN 1 ELSE 0)
    /\ skipped' = {}
    /\ pc' = "swap"
    /\ UNCHANGED <<cookFrame, tasks, cancelled, threaded>>

\* mGrainSize > 0: tbb::parallel_for(leafs.leafRange(mGrainSize), *this).
cookParallel ==
    /\ pc = "cook" /\ mGrainSize > 0
    /\ \E P \in Partitions(leafRange, mGrainSize) : tasks' = [r \in P |-> "pending"]
    /\ cancelled' = FALSE
    /\ prev' = buffer0
    /\ passLog' = Append(passLog, mTask.fn)
    /\ lateCooks' = lateCooks + (IF wasInterrupted THEN 1 ELSE 0)
    /\ threaded' = threaded \cup {"task"}
    /\ skipped' = {}
    /\ pc' = "tasks"
    /\ UNCHANGED <<gridVars, cookFrame, leafs, thrown, inexact>>

\* One task of the parallel_for: a copy of the Filter applied to its range.
\* The task polls the interrupter first and cancels its group when signalled;
\* it runs to its end all the same.  Tasks the scheduler had begun before the
\* cancellation run as well, tasks it had not begun are dropped.
parallelTask(r) ==
    /\ pc = "tasks" /\ tasks[r] = "pending"
    /\ cancelled' = (cancelled \/ wasInterrupted)
    /\ LET res == operatorCall(mTask, F, G, r)
       IN  /\ Store(res.g)
           /\ thrown' = res.thrown
    /\ inexact' = (inexact \/ TaskInexact(mTask, F, G, r))
    /\ tasks' = [tasks EXCEPT ![r] = "done"]
    /\ UNCHANGED <<cookFrame, pc, prev, passLog, threaded, lateCooks, skipped>>

\* Mutation of Dispatched: the dispatch returns while tasks are pending.
DispatchedEarly == pc = "swap" \/ pc = "tasks"

\* TRUE iff the dispatch of the pass has returned.
Dispatched ==
    \/ pc = "swap"
    \/ pc = "tasks" /\ (cancelled \/ \A r \in DOMAIN tasks : tasks[r] = "done")

\* The statement that follows cook() in the operation (the next task bound,
\* the loop's increment, the end of the operation).
Continue ==
    CASE call.op \in {"mean", "gaussian"} /\ step = 0 ->
           [mTask |-> [fn |-> "doBoxY", arg |-> call.w], step |-> 1, i |-> i, n |-> n, pc |-> "cook"]
      [] call.op \in {"mean", "gaussian"} /\ step = 1 ->
           [mTask |-> [fn |-> "doBoxZ", arg |-> call.w], step |-> 2, i |-> i, n |-> n, pc |-> "cook"]
      [] call.op = "mean" /\ step = 2 ->
           [mTask |-> mTask, step |-> 0, i |-> i + 1, n |-> n, pc |-> "loop"]
      [] call.op = "gaussian" /\ step = 2 ->
           [mTask |-> mTask, step |-> 0, i |-> i, n |-> n + 1, pc |-> "loop"]
      [] call.op = "median" ->
           [mTask |-> mTask, step |-> 0, i |-> i + 1, n |-> n, pc |-> "loop"]
      [] OTHER ->
           [mTask |-> mTask, step |-> 0, i |-> i, n |-> n, pc |-> "end"]

\* leafs.swapLeafBuffer(1, mGrainSize==0), which ends cook().
cookSwap ==
    /\ Dispatched
    /\ Store(swapLeafBuffer(G, leafs.auxBuffersPerLeaf, 1))
    /\ threaded' = (IF mGrainSize # 0 /\ leafs.auxBuffersPerLeaf >= 1
                    THEN threaded \cup {"swap"} ELSE threaded)
    /\ skipped' = (IF pc = "tasks" THEN {r \in DOMAIN tasks : tasks[r] = "pending"} ELSE {})
    /\ tasks' = <<>>
    /\ cancelled' = FALSE
    /\ mTask' = Continue.mTask
    /\ step' = Continue.step
    /\ i' = Continue.i
    /\ n' = Continue.n
    /\ pc' = Continue.pc
    /\ UNCHANGED <<mInterrupter, mMask, mGrainSize, mMinMask, mMaxMask, mInvertMask, call,
                   envVars, ref, prev, inexact, passLog, lateCooks, first, otherVars, callLog, lastArgs>>

\* Mutation of return: end() is called without asking for the interrupter.
returnEndUnchecked ==
    /\ pc = "end"
    /\ endCalls' = 1
    /\ leafs' = NoManager
    /\ calls' = calls + 1
    /\ pc' = "idle"
    /\ UNCHANGED <<gridVars, filterVars, call, i, n, step, tasks, cancelled,
                   interrupted, startCalls, thrown, histVars>>

\* if (mInterrupter) mInterrupter->end(); the LeafManager goes out of scope.
return ==
    /\ pc = "end"
    /\ endCalls' = IF mInterrupter THEN 1 ELSE 0
    /\ leafs' = NoManager
    /\ calls' = calls + 1
    /\ pc' = "idle"
    /\ UNCHANGED <<gridVars, filterVars, call, i, n, step, tasks, cancelled,
                   interrupted, startCalls, thrown, histVars>>

\* The environment: the interrupter starts to report an interruption.
signal ==
    /\ mInterrupter /\ ~interrupted
    /\ interrupted' = TRUE
    /\ UNCHANGED <<gridVars, filterVars, callVars, startCalls, endCalls, thrown, calls, histVars>>


\* ------------------------------------------------------------------------
\* Inputs
\* ------------------------------------------------------------------------
GrainSizes  == {-1, 0, 1, 2}
Widths      == {0, 1, 2}
Iterations  == 0..MaxIter
Offsets     == {-3, 3, 4}
AlphaInputs == {Alpha(0), Alpha(1), Alpha(2), NaN}

\* Two leaves side by side along x.
TwoLeaves == {<<0, 0, 0>>, <<LeafDim, 0, 0>>}

\* The active voxels: a row along x through both leaves, or a slab across
\* the face the leaves share.
RowOn  == {c \in AllLeafCoords(TwoLeaves) : c[2] = 0 /\ c[3] = 0}
SlabOn == {c \in AllLeafCoords(TwoLeaves) : c[1] \in {LeafDim - 1, LeafDim} /\ c[3] = 0}

\* The values stored in the leaves (inactive voxels hold values too).
Field(k, c) ==
    CASE k = 1 -> 27 * ((c[1] + c[2] + c[3]) % 3)
      [] k = 2 -> c[1] * c[1] + 3 * c[2] + c[3]
      [] OTHER -> IF c = <<LeafDim - 1, 0, 0>> THEN 81 ELSE 0

GridOf(leaves, on, k, bg) ==
    [leafSet |-> leaves, valueMask |-> on,
     buffer0 |-> [c \in AllLeafCoords(leaves) |-> Field(k, c)], background |-> bg]

TypicalGrids == {GridOf(TwoLeaves, on, k, 54) : on \in {RowOn, SlabOn}, k \in {1, 2}}

\* The state after Filter's constructor on grid g (interrupter: whether one
\* was passed) and setGrainSize(grainsize).
Configured(g, interrupter, grainsize) ==
    /\ leafSet = g.leafSet
    /\ valueMask = g.valueMask
    /\ buffer0 = g.buffer0
    /\ background = g.background
    /\ mTask = NoTask
    /\ mInterrupter = interrupter
    /\ mMask = 0
    /\ mGrainSize = grainsize
    /\ mMinMask = Alpha(0)
    /\ mMaxMask = Alpha(1)
    /\ mInvertMask = FALSE
    /\ leafs = NoManager
    /\ pc = "idle"
    /\ call = NoCall
    /\ i = 0
    /\ n = 0
    /\ step = 0
    /\ tasks = <<>>
    /\ cancelled = FALSE
    /\ interrupted = FALSE
    /\ startCalls = 0
    /\ endCalls = 0
    /\ thrown = "none"
    /\ calls = 0
    /\ ref = g.buffer0
    /\ prev = g.buffer0
    /\ inexact = FALSE
    /\ passLog = <<>>
    /\ threaded = {}
    /\ lateCooks = 0
    /\ skipped = {}
    /\ first = g.buffer0
    /\ callLog = <<>>
    /\ lastArgs = <<>>

\* A tree with no leaf node and no tile, on which nothing was called.
EmptyTree ==
    /\ leafMasks = <<>>
    /\ activeTiles = {}
    /\ seed = [leafMasks |-> <<>>, activeTiles |-> {}]
    /\ morphLog = <<>>

\* The registry's lock before anything took it, and no call in progress.
Unlocked == [held |-> FALSE, acquired |-> 0, released |-> 0]

NoDelete == [pc |-> "idle", groups |-> <<>>, invert |-> FALSE, drop |-> FALSE, pending |-> {}]

\* A point data tree with no leaf, on which nothing was called.
NoPoints ==
    /\ pointTree = <<>>
    /\ groupMap = {}
    /\ pointsBefore = [pointTree |-> <<>>, groupMap |-> {}]
    /\ deleteLog = <<>>
    /\ registryLock = Unlocked
    /\ deleteCall = NoDelete

\* No statistics are being accumulated.
NoStats ==
    /\ statsTree = <<>>
    /\ mOp = "none"
    /\ iterItems = {}
    /\ mStats = <<>>
    /\ applied = <<>>

\* trapezoidal is not being called.
NoQuad ==
    /\ quadArgs = <<>>
    /\ quadState = [pc |-> "idle"]
    /\ samples = <<>>

\* computeVoxelSize is not being called.
NoSize ==
    /\ sizeArgs = <<>>
    /\ sizeState = [pc |-> "idle"]

NoRest == NoStats /\ NoQuad /\ NoSize

\* The objects a Filter does not touch are not in use.
NoOthers == EmptyTree /\ NoPoints /\ NoRest

\* The state after Filter's constructor: the grain size is 1.
Constructed(g, interrupter) == Configured(g, interrupter, 1)

Init == \E g \in TypicalGrids, interrupter \in BOOLEAN : Constructed(g, interrupter) /\ NoOthers

\* The steps of an operation in progress.
Run ==
    \/ meanLoop
    \/ gaussianLoop
    \/ medianLoop
    \/ cookSerial
    \/ cookParallel
    \/ \E r \in DOMAIN tasks : parallelTask(r)
    \/ cookSwap
    \/ return

\* One Filter with the default mask range: its grain size set any number of
\* times, then one operation, which the interrupter may interrupt.
Fresh == Idle /\ calls = 0

Next ==
    \/ Fresh /\ \E grainsize \in GrainSizes : setGrainSize(grainsize)
    \/ Fresh /\ \E width \in Widths, iterations \in Iterations, mask \in {0, 1} :
                    mean(width, iterations, mask)
    \/ Fresh /\ \E width \in Widths, iterations \in Iterations, mask \in {0, 1} :
                    gaussian(width, iterations, mask)
    \/ Fresh /\ \E width \in Widths, iterations \in Iterations, mask \in {0, 1} :
                    median(width, iterations, mask)
    \/ Fresh /\ \E value \in Offsets, mask \in {0, 1} : offset(value, mask)
    \/ Run
    \/ calls = 0 /\ signal

Spec == Init /\ [][Next]_vars

\* ------------------------------------------------------------------------
\* Passes and buffers
\* ------------------------------------------------------------------------
\* A step of a pass: the serial call of the task, the spawning of the
\* parallel tasks, one parallel task.
PassStep == pc = "cook" \/ (pc = "tasks" /\ pc' = "tasks")

\* The step that ends cook(): swapLeafBuffer and what follows it.
SwapStep == Dispatched /\ pc' \notin {"tasks", "swap"}

BoxOrMedian == call.op \in {"mean", "gaussian", "median"}

\* C1 as stated: in every pass of every operation (offset included) no
\* primary-buffer value is modified during the pass, and the step that ends
\* the pass exchanges the primary buffers with the scratch buffers.
C1_EveryPassWritesScratchOnly ==
    [][/\ PassStep => buffer0' = buffer0
       /\ SwapStep => (buffer0' = leafs.auxBuffer /\ leafs'.auxBuffer = buffer0)]_vars

\* C1, amended: every pass of mean, gaussian and median leaves the primary
\* buffers as they are and writes scratch buffer 1 only, and the buffers are
\* exchanged once when the pass has ended.  The pass of offset has no scratch
\* buffer: it writes the active voxels of the primary buffers in place.
C1_BoxAndMedianWriteScratchOnly ==
    [][/\ (PassStep /\ BoxOrMedian) => buffer0' = buffer0
       /\ (SwapStep /\ BoxOrMedian) =>
              (buffer0' = leafs.auxBuffer /\ leafs'.auxBuffer = buffer0)
       /\ (PassStep /\ call.op = "offset") =>
              /\ leafs.auxBuffer = <<>> /\ leafs'.auxBuffer = <<>>
              /\ \A c \in DOMAIN buffer0 : buffer0'[c] # buffer0[c] => c \in valueMask]_vars

\* A pass of mean, gaussian or median has written results to the scratch
\* buffers and the primary buffers still hold what the pass read.
C1_ScratchWritten ==
    /\ pc \in {"swap", "tasks"} /\ BoxOrMedian
    /\ leafs.auxBuffer # buffer0
    /\ buffer0 = prev

\* ------------------------------------------------------------------------
\* Topology
\* ------------------------------------------------------------------------
\* C2: no step of any operation (any mask, grain size, iteration count,
\* interrupted or not) changes the set of leaves, the voxels they store or
\* the active state of a voxel; only values change.
C2_TopologyUnchanged ==
    [][/\ leafSet' = leafSet
       /\ valueMask' = valueMask
       /\ DOMAIN buffer0' = DOMAIN buffer0]_vars

\* An operation has returned and has changed values.
C2_ValuesChanged == pc = "idle" /\ calls = 1 /\ buffer0 # first

\* ------------------------------------------------------------------------
\* Order of the box passes
\* ------------------------------------------------------------------------
\* The axes of the passes dispatched so far.
AxesLog == [k \in DOMAIN passLog |-> TaskAxis(passLog[k])]

\* k triples of passes along x (0), then y (1), then z (2).
XYZ(k) == [j \in 1..(3 * k) |-> (j - 1) % 3]

Returned(op) == pc = "idle" /\ calls = 1 /\ call.op = op

\* C3 as stated: an uninterrupted mean(width, n) has run n triples of box
\* passes along x, then y, then z; an uninterrupted gaussian 4n such triples.
C3_PassesAlongXYZ ==
    /\ (Returned("mean") /\ ~interrupted) => AxesLog = XYZ(call.iterations)
    /\ (Returned("gaussian") /\ ~interrupted) => AxesLog = XYZ(4 * call.iterations)

\* ------------------------------------------------------------------------
\* Grain size and threads
\* ------------------------------------------------------------------------
\* C8 as stated: with a grain size of 0 or less nothing of the call is
\* multi-threaded: not the tasks, not the construction of the leaf manager,
\* not the buffer swap.
C8_NonPositiveGrainIsSerial == (mGrainSize <= 0 /\ pc # "idle") => threaded = {}

\* ------------------------------------------------------------------------
\* Interruption
\* ------------------------------------------------------------------------
\* C9 as stated: once the interrupter signals, mean, gaussian and median
\* start no further pass.
C9_NoPassAfterSignal == BoxOrMedian => lateCooks = 0

\* C9, amended: the interrupter is consulted where an iteration begins, so
\* after the signal no new iteration begins; the passes that remain of the
\* iteration already begun are still dispatched, each with its buffer swap:
\* at most 3 for mean and gaussian, at most 1 for median.  Every later
\* evaluation of a loop condition leaves the loop without a pass.
C9_NoIterationAfterSignal ==
    /\ [](/\ call.op \in {"mean", "gaussian"} => lateCooks <= 3
          /\ call.op = "median" => lateCooks <= 1)
    /\ [][(pc = "loop" /\ wasInterrupted) => pc' \in {"loop", "end"}]_vars

\* A gaussian interrupted just after an iteration began: the three passes of
\* that iteration ran after the signal, the remaining triples did not.
C9_ThreeLatePasses ==
    /\ Returned("gaussian") /\ call.iterations = MaxIter
    /\ lateCooks = 3
    /\ Len(passLog) < 12 * call.iterations


\* ------------------------------------------------------------------------
\* Masked passes and the mask range
\* ------------------------------------------------------------------------
\* One Filter whose mask range, inversion and grain size are set any number
\* of times, then one masked operation, which the interrupter may interrupt.
InitMask == \E g \in TypicalGrids, interrupter \in BOOLEAN : Constructed(g, interrupter) /\ NoOthers

NextMask ==
    \/ Fresh /\ \E min \in AlphaInputs, max \in AlphaInputs : setMaskRange(min, max)
    \/ Fresh /\ \E invert \in BOOLEAN : invertMask(invert)
    \/ Fresh /\ \E grainsize \in {0, 1} : setGrainSize(grainsize)
    \/ Fresh /\ \E width \in {1, 2}, mask \in MaskIds : mean(width, 1, mask)
    \/ Fresh /\ \E mask \in MaskIds : gaussian(1, 1, mask)
    \/ Fresh /\ \E width \in {1, 2}, mask \in MaskIds : median(width, 1, mask)
    \/ Fresh /\ \E value \in Offsets, mask \in MaskIds : offset(value, mask)
    \/ Run
    \/ calls = 0 /\ signal

SpecMask == InitMask /\ [][NextMask]_vars

\* The task of the last pass dispatched, and the grid it read.
LastFn == passLog[Len(passLog)]

PrevG == [G EXCEPT !.buffer0 = prev]

\* What the last pass computes for voxel c before any blending.
Filtered(c) ==
    CASE LastFn \in {"doBoxX", "doBoxY", "doBoxZ"} -> Avg(PrevG, TaskAxis(LastFn), call.w, c)
      [] LastFn = "doMedian" -> StencilMedian(PrevG, call.w, c)
      [] LastFn = "doOffset" -> prev[c] + call.w

\* A pass has been dispatched and its swap is done.
PassDone == passLog # <<>> /\ pc \in {"cook", "loop", "end", "idle"}

\* The voxels of the leaf ranges whose tasks a cancelled pass never ran.
SkippedVoxels ==
    AllLeafCoords(UNION {RangeLeaves([leafArray |-> LeafOrder(leafSet)], r) : r \in skipped})

\* C7: with a mask, a pass (box, median or offset) leaves every active voxel
\* its tasks visited at b*original + a*filtered, where (a, b) is the alpha
\* pair of the voxel, a + b = 1 (here a/D + b/D with a + b = D), and for
\* offset filtered = original + offset.
C7_MaskedPassBlends ==
    (mMask # 0 /\ PassDone) =>
        \A c \in valueMask \ SkippedVoxels :
            LET al == alpha(F, c)
            IN  /\ al.a >= 0 /\ al.b >= 0 /\ al.a + al.b = al.D
                /\ buffer0[c] = Cast(al.b * prev[c] + al.a * Filtered(c), al.D)

\* A masked pass is done and some voxel with 0 < a < 1 holds a value that
\* is neither its original nor its filtered value.
C7_PartlyBlended ==
    /\ mMask # 0 /\ PassDone
    /\ \E c \in valueMask :
          /\ alpha(F, c).a > 0 /\ alpha(F, c).b > 0
          /\ buffer0[c] # prev[c]
          /\ buffer0[c] # Filtered(c)

\* C10: setMaskRange(min, max) throws ValueError whenever min is not smaller
\* than max (equal values and NaN included) and then leaves the stored range
\* as it was; otherwise it stores the range.  The stored range always has
\* mMinMask < mMaxMask.
C10_MaskRangeChecked ==
    /\ [](Less(mMinMask, mMaxMask))
    /\ [][lastArgs' # <<>> =>
            IF Less(lastArgs'[1], lastArgs'[2])
            THEN thrown' = "none" /\ <<mMinMask', mMaxMask'>> = lastArgs'
            ELSE thrown' = "ValueError" /\ UNCHANGED <<mMinMask, mMaxMask>>]_vars

\* setMaskRange has thrown on equal arguments and a range set before the
\* call is still stored.
C10_EqualRejected ==
    /\ thrown = "ValueError"
    /\ lastArgs # <<>> /\ lastArgs[1] = lastArgs[2] /\ ~lastArgs[1].nan
    /\ <<mMinMask, mMaxMask>> = <<Alpha(0), Alpha(2)>>

\* ------------------------------------------------------------------------
\* Dense boxes: mean and median of the cube
\* ------------------------------------------------------------------------
Box(lo, hi) == {c \in AllLeafCoords({LeafOrigin(<<x, y, z>>) :
                        x \in lo[1]..hi[1], y \in lo[2]..hi[2], z \in lo[3]..hi[3]}) :
                    \A k \in 1..3 : lo[k] <= c[k] /\ c[k] <= hi[k]}

\* A value every division of a box average of width 1 or 2 keeps whole.
Unit == 27 * 125

BoxField(k, c) ==
    CASE k = 1 -> Unit * ((c[1] + 2 * c[2] + c[3]) % 3)
      [] k = 2 -> IF c = <<1, 0, 1>> THEN Unit ELSE 0
      [] OTHER -> c[1] + 2 * c[2] + 5 * c[3]

\* A dense box of active voxels, every other voxel of its leaves inactive
\* and at the background value.
BoxGrid(lo, hi, k, bg) ==
    LET on     == Box(lo, hi)
        leaves == {LeafOrigin(c) : c \in on}
    IN  [leafSet |-> leaves, valueMask |-> on,
         buffer0 |-> [c \in AllLeafCoords(leaves) |-> IF c \in on THEN BoxField(k, c) ELSE bg],
         background |-> bg]

BoxGrids ==
    {BoxGrid(b[1], b[2], k, bg) :
        b \in {<<(<<0, 0, 0>>), (<<2, 2, 2>>)>>, <<(<<1, 0, 1>>), (<<2, 0, 3>>)>>},
        k \in 1..3, bg \in {0, Unit}}

\* The grain size is set before the operation: serial, or two tasks at most.
InitBox ==
    \E g \in BoxGrids \cup TypicalGrids, grainsize \in {0, 4} : Configured(g, FALSE, grainsize) /\ NoOthers

NextBox ==
    \/ Fresh /\ \E width \in {1, 2} : mean(width, 1, 0)
    \/ Fresh /\ \E width \in {1, 2} : median(width, 1, 0)
    \/ meanLoop
    \/ medianLoop
    \/ cookSerial
    \/ cookParallel
    \/ \E r \in DOMAIN tasks : parallelTask(r)
    \/ cookSwap
    \/ return

SpecBox == InitBox /\ [][NextBox]_vars

\* The grid as the operation found it.
RefG == [G EXCEPT !.buffer0 = ref]

IsDenseBox(on) ==
    /\ on # {}
    /\ \A c \in DOMAIN buffer0 :
          c \in on <=> \A k \in 1..3 : \E p \in on, q \in on : p[k] <= c[k] /\ c[k] <= q[k]

InactiveAtBackground == \A c \in DOMAIN ref \ valueMask : ref[c] = background

\* C5: after one unmasked mean(w, 1) on a dense box surrounded by inactive
\* background, when no division lost anything, every active voxel holds the
\* mean of the (2w+1)^3 unfiltered values around it, inactive neighbours
\* counting as the background.
C5_MeanOfCube ==
    (/\ Returned("mean") /\ call.iterations = 1 /\ mMask = 0 /\ ~inexact
     /\ IsDenseBox(valueMask) /\ InactiveAtBackground) =>
        \A c \in valueMask :
            buffer0[c] * StencilSize(call.w) = SumSeq(StencilValues(RefG, call.w, c))

\* Such a mean has returned, of width 2, and has changed a voxel that has
\* active and inactive neighbours.
C5_BoxAveraged ==
    /\ Returned("mean") /\ call.iterations = 1 /\ mMask = 0 /\ ~inexact
    /\ IsDenseBox(valueMask) /\ InactiveAtBackground
    /\ call.w = 2 /\ background # 0 /\ <<1, 1, 1>> \in valueMask
    /\ buffer0[<<1, 1, 1>>] \notin {ref[<<1, 1, 1>>], background}

\* C6: after one unmasked median(w, 1) every active voxel holds the element
\* of index (N-1)/2 of the sorted N = (2w+1)^3 values around it in the
\* unfiltered grid.
C6_MedianOfCube ==
    (Returned("median") /\ call.iterations = 1 /\ mMask = 0) =>
        \A c \in valueMask :
            LET vals == StencilValues(RefG, call.w, c)
                N    == Len(vals)
                k    == (N - 1) \div 2
            IN  /\ N = StencilSize(call.w)
                /\ \E m \in DOMAIN vals : vals[m] = buffer0[c]
                /\ Cardinality({m \in DOMAIN vals : vals[m] < buffer0[c]}) <= k
                /\ Cardinality({m \in DOMAIN vals : vals[m] <= buffer0[c]}) > k

\* Such a median has returned and has changed a voxel.
C6_MedianTaken ==
    /\ Returned("median") /\ call.iterations = 1 /\ mMask = 0
    /\ \E c \in valueMask : buffer0[c] # ref[c]

\* ------------------------------------------------------------------------
\* Offset and its inverse
\* ------------------------------------------------------------------------
MaxCalls == 2       \* operations called on one Filter

More == Idle /\ calls < MaxCalls

InitOffset == \E g \in TypicalGrids, interrupter \in BOOLEAN : Constructed(g, interrupter) /\ NoOthers

NextOffset ==
    \/ More /\ \E grainsize \in GrainSizes : setGrainSize(grainsize)
    \/ More /\ \E value \in Offsets : offset(value, 0)
    \/ cookSerial
    \/ cookParallel
    \/ \E r \in DOMAIN tasks : parallelTask(r)
    \/ cookSwap
    \/ return
    \/ calls < MaxCalls /\ signal

SpecOffset == InitOffset /\ [][NextOffset]_vars

callOperator(r) ==
    /\ Idle
    /\ LET g   == [G EXCEPT !.leafArray = LeafOrder(leafSet), !.auxBuffer = buffer0]
           res == operatorCall(mTask, F, g, r)
       IN  /\ buffer0' = res.g.buffer0
           /\ leafSet' = res.g.leafSet
           /\ valueMask' = res.g.valueMask
           /\ background' = res.g.background
           /\ thrown' = res.thrown
    /\ callLog' = Append(callLog, [op |-> "operator()", arg |-> r, mask |-> mMask, grainsize |-> mGrainSize])
    /\ lastArgs' = <<>>
    /\ UNCHANGED <<filterVars, leafs, callVars, interrupted, startCalls, endCalls, calls,
                   ref, prev, inexact, passLog, threaded, lateCooks, skipped, first, otherVars>>

\* The ranges a caller may pass: the whole leaf array or its first leaf.
UserRanges == {<<0, 1>>, <<0, Cardinality(TwoLeaves)>>}

InitOperator == \E g \in TypicalGrids : Constructed(g, FALSE) /\ NoOthers

Called(k) == Idle /\ Len(callLog) < k

\* One Filter: configuration, at most one offset, and direct calls of
\* operator() before and after it.
NextOperator ==
    \/ Fresh /\ \E grainsize \in {0, 1} : setGrainSize(grainsize)
    \/ Fresh /\ \E min \in AlphaInputs, max \in AlphaInputs : setMaskRange(min, max)
    \/ Fresh /\ \E invert \in BOOLEAN : invertMask(invert)
    \/ Fresh /\ Called(MaxCalls) /\ \E value \in Offsets : offset(value, 0)
    \/ Called(MaxCalls) /\ \E r \in UserRanges : callOperator(r)
    \/ cookSerial
    \/ cookParallel
    \/ \E r \in DOMAIN tasks : parallelTask(r)
    \/ cookSwap
    \/ return

SpecOperator == InitOperator /\ [][NextOperator]_vars

\* No operation has configured a task: only operator() itself was called.
NoOperationYet == \A k \in DOMAIN callLog : callLog[k].op = "operator()"

\* The step is a direct call of operator().
OperatorStep ==
    /\ Len(callLog') = Len(callLog) + 1
    /\ callLog'[Len(callLog')].op = "operator()"

\* C11: operator() called on a Filter on which no operation has configured
\* a task throws ValueError and changes no voxel value (nor anything else
\* of the grid); it never returns silently.
C11_NoTaskThrows ==
    [][(OperatorStep /\ NoOperationYet) =>
          /\ thrown' = "ValueError"
          /\ UNCHANGED <<gridVars, mTask>>]_vars

\* operator() has thrown on a Filter whose configuration was changed but
\* on which no operation was called.
C11_Thrown ==
    /\ callLog # <<>> /\ NoOperationYet
    /\ callLog[Len(callLog)].op = "operator()"
    /\ thrown = "ValueError"
    /\ mGrainSize = 0 /\ mInvertMask
    /\ buffer0 = first


\* ------------------------------------------------------------------------
\* Width of the kernels
\* ------------------------------------------------------------------------
AnyWidths == {-1, 0, 1, 2}

InitWidth == \E g \in TypicalGrids : Constructed(g, FALSE) /\ NoOthers

\* One Filter, serial or parallel, one unmasked mean, gaussian or median of
\* any width.
NextWidth ==
    \/ Fresh /\ \E grainsize \in {0, 1} : setGrainSize(grainsize)
    \/ Fresh /\ \E width \in AnyWidths, iterations \in {0, 1} : mean(width, iterations, 0)
    \/ Fresh /\ \E width \in AnyWidths, iterations \in {0, 1} : gaussian(width, iterations, 0)
    \/ Fresh /\ \E width \in AnyWidths, iterations \in {0, 1} : median(width, iterations, 0)
    \/ Run

SpecWidth == InitWidth /\ [][NextWidth]_vars

\* A tree without leaves whose background is 1: the sum Avg accumulates
\* over it is the number of voxels Avg reads.
OnesGrid == [leafSet |-> {}, buffer0 |-> <<>>, background |-> 1]

\* C12: a step that is mean, gaussian or median called with a width below 1
\* is the step of the same call with width 1 (and width 1 that of any width
\* below 1); the task of every pass carries the clamped width, at least 1,
\* so its kernel spans 2*max(1, width)+1 voxels along an axis.
C12_WidthClamped ==
    /\ [][\A width \in {w \in AnyWidths : w < 1}, iterations \in {0, 1} :
            /\ mean(width, iterations, 0) <=> mean(1, iterations, 0)
            /\ gaussian(width, iterations, 0) <=> gaussian(1, iterations, 0)
            /\ median(width, iterations, 0) <=> median(1, iterations, 0)]_vars
    /\ [](pc \in {"cook", "tasks", "swap"} =>
            /\ mTask.arg = call.w /\ call.w >= 1
            /\ \A Axis \in 0..2 :
                  AvgSum(OnesGrid, Axis, mTask.arg, <<0, 0, 0>>) = 2 * Max(1, call.w) + 1
            /\ StencilSize(mTask.arg) = (2 * call.w + 1) * (2 * call.w + 1) * (2 * call.w + 1))

\* A mean has returned that ran its passes with width 1 and changed values:
\* the state mean(0, 1), mean(-1, 1) and mean(1, 1) all lead to.
C12_RanWithWidthOne ==
    /\ Returned("mean") /\ call.w = 1 /\ Len(passLog) = 3
    /\ buffer0 # first

\* ---------------------------------------------------------------------------
\* Morphology: dilateVoxels, erodeVoxels and dilateActiveValues on a tree
\* with leaf nodes of DIM^3 voxels and active leaf-sized tiles.
\* ---------------------------------------------------------------------------

\* LeafNodeType::DIM of the tree the operations are exercised on.
DIM == 8

\* The number of generations the longest sequence of dilations runs.
Generations == 10

\* The generations run from a voxel that is not one of the Probes.
MaxRadius == 2

Add(c, d) == <<c[1] + d[1], c[2] + d[2], c[3] + d[3]>>

\* The origin of the leaf-sized node that holds voxel c.
nodeOrigin(c) == <<c[1] - (c[1] % DIM), c[2] - (c[2] % DIM), c[3] - (c[3] % DIM)>>

nodeVoxels(origin) ==
    {Add(origin, <<x, y, z>>) : x \in 0..(DIM - 1), y \in 0..(DIM - 1), z \in 0..(DIM - 1)}

\* The shifts of a value mask: along one axis, along two axes at once
\* (diagonals), along all three (corners).
FaceShifts == {[k \in 1..3 |-> IF k = a THEN s ELSE 0] : a \in 1..3, s \in {-1, 1}}

EdgeShifts == {Add(d, e) : d \in FaceShifts, e \in FaceShifts} \ (FaceShifts \cup {<<0, 0, 0>>}
                  \cup {Add(d, d) : d \in FaceShifts})

VertexShifts == {<<s, t, u>> : s \in {-1, 1}, t \in {-1, 1}, u \in {-1, 1}}

NearestNeighbors == {"NN_FACE", "NN_FACE_EDGE", "NN_FACE_EDGE_VERTEX"}

TilePolicy == {"IGNORE_TILES", "EXPAND_TILES", "PRESERVE_TILES"}

NeighborShifts(nn) ==
    CASE nn = "NN_FACE"             -> FaceShifts
      [] nn = "NN_FACE_EDGE"        -> FaceShifts \cup EdgeShifts
      [] nn = "NN_FACE_EDGE_VERTEX" -> FaceShifts \cup EdgeShifts \cup VertexShifts

\* The tree of the current state.
Tree == [leafMasks |-> leafMasks, activeTiles |-> activeTiles]

isValueOn(t, c) ==
    \/ nodeOrigin(c) \in t.activeTiles
    \/ nodeOrigin(c) \in DOMAIN t.leafMasks /\ c \in t.leafMasks[nodeOrigin(c)]

leafVoxels(t) == UNION {t.leafMasks[o] : o \in DOMAIN t.leafMasks}

leafCount(t) == Cardinality(DOMAIN t.leafMasks)

activeTileCount(t) == Cardinality(t.activeTiles)

activeVoxelCount(t) ==
    Cardinality(leafVoxels(t)) + DIM * DIM * DIM * activeTileCount(t)

\* A leaf's mask OR-ed with itself shifted: the bits that stay in the leaf.
Local(t, o, nn) ==
    t.leafMasks[o] \cup
    {c \in {Add(b, d) : b \in t.leafMasks[o], d \in NeighborShifts(nn)} : nodeOrigin(c) = o}

\* Mutation of Halo: the bits shifted out of the leaf are lost.
HaloDropped(t, o, nn) == {}

\* The bits shifted out of the leaf: they go to its neighbour nodes.
Halo(t, o, nn) ==
    {c \in {Add(b, d) : b \in t.leafMasks[o], d \in NeighborShifts(nn)} : nodeOrigin(c) # o}

\* Mutation of dilateStep: no leaf is allocated, the bits that fall outside
\* the leaves of the tree are lost.
dilateStepNoAlloc(t, nn) ==
    LET bits == UNION {Local(t, o, nn) \cup Halo(t, o, nn) : o \in DOMAIN t.leafMasks}
    IN  [t EXCEPT !.leafMasks = [o \in DOMAIN t.leafMasks |-> {c \in bits : nodeOrigin(c) = o}]]

\* One generation of dilation: every leaf scatters its mask; neighbour
\* leaves are allocated on demand; a voxel under an active tile is on
\* already and gets no leaf.
dilateStep(t, nn) ==
    LET bits == UNION {Local(t, o, nn) \cup Halo(t, o, nn) : o \in DOMAIN t.leafMasks}
        kept == {c \in bits : nodeOrigin(c) \notin t.activeTiles}
        origins == DOMAIN t.leafMasks \cup {nodeOrigin(c) : c \in kept}
    IN  [t EXCEPT !.leafMasks = [o \in origins |-> {c \in kept : nodeOrigin(c) = o}]]

\* Mutation of erodeStep: a voxel with any neighbour on stays on.
erodeStepAnyNeighbor(t, nn) ==
    LET masks == [o \in DOMAIN t.leafMasks |->
                    {c \in t.leafMasks[o] :
                        \E d \in NeighborShifts(nn) : isValueOn(t, Add(c, d))}]
        live == {o \in DOMAIN masks : masks[o] # {}}
    IN  [t EXCEPT !.leafMasks = [o \in live |-> masks[o]]]

\* One generation of erosion, read from the previous generation: a voxel
\* stays on if all its neighbours were on; a leaf left with no voxel on is
\* pruned.
erodeStep(t, nn) ==
    LET masks == [o \in DOMAIN t.leafMasks |->
                    {c \in t.leafMasks[o] :
                        \A d \in NeighborShifts(nn) : isValueOn(t, Add(c, d))}]
        live == {o \in DOMAIN masks : masks[o] # {}}
    IN  [t EXCEPT !.leafMasks = [o \in live |-> masks[o]]]

RECURSIVE dilated(_, _, _)
dilated(t, iterations, nn) ==
    IF iterations <= 0 THEN t ELSE dilated(dilateStep(t, nn), iterations - 1, nn)

RECURSIVE eroded(_, _, _)
eroded(t, iterations, nn) ==
    IF iterations <= 0 THEN t ELSE eroded(erodeStep(t, nn), iterations - 1, nn)

\* Mutation of voxelizeActiveTiles: the tiles are left as they are.
voxelizeNothing(t) == t

\* Every active tile turned into a leaf with all its voxels on.
voxelizeActiveTiles(t) ==
    [leafMasks |-> [o \in DOMAIN t.leafMasks \cup t.activeTiles |->
                        IF o \in t.activeTiles THEN nodeVoxels(o) ELSE t.leafMasks[o]],
     activeTiles |-> {}]

\* The tiles of t kept as tiles in the dilated tree d.
preserveTiles(t, d) ==
    [leafMasks |-> [o \in DOMAIN d.leafMasks \ t.activeTiles |-> d.leafMasks[o]],
     activeTiles |-> t.activeTiles]

dilatedActiveValues(t, iterations, nn, mode) ==
    CASE mode = "IGNORE_TILES"   -> dilated(t, iterations, nn)
      [] mode = "EXPAND_TILES"   -> dilated(voxelizeActiveTiles(t), iterations, nn)
      [] mode = "PRESERVE_TILES" ->
            preserveTiles(t, dilated(voxelizeActiveTiles(t), iterations, nn))

filterIdle == <<gridVars, filterVars, callVars, envVars, filterHist, restVars>>

SetTree(t, entry) ==
    /\ leafMasks' = t.leafMasks
    /\ activeTiles' = t.activeTiles
    /\ morphLog' = Append(morphLog, entry)
    /\ UNCHANGED <<seed, filterIdle, pointVars>>

dilateVoxels(iterations, nn) ==
    SetTree(dilated(Tree, iterations, nn),
            [op |-> "dilateVoxels", iterations |-> iterations, nn |-> nn, mode |-> "IGNORE_TILES"])

erodeVoxels(iterations, nn) ==
    SetTree(eroded(Tree, iterations, nn),
            [op |-> "erodeVoxels", iterations |-> iterations, nn |-> nn, mode |-> "IGNORE_TILES"])

dilateActiveValues(iterations, nn, mode) ==
    SetTree(dilatedActiveValues(Tree, iterations, nn, mode),
            [op |-> "dilateActiveValues", iterations |-> iterations, nn |-> nn, mode |-> mode])

\* The trees the operations start from: one voxel on, one active tile the
\* size of a leaf, and that tile with a voxel on next to its corner.
OneVoxel(c) == [leafMasks |-> [o \in {nodeOrigin(c)} |-> {c}], activeTiles |-> {}]

OneTile == [leafMasks |-> <<>>, activeTiles |-> {<<0, 0, 0>>}]

TileAndVoxel ==
    [leafMasks |-> [o \in {<<DIM, 0, 0>>} |-> {<<DIM, DIM - 1, DIM - 1>>}],
     activeTiles |-> {<<0, 0, 0>>}]

\* The voxels the long sequences start from: the centre of the leaf, its
\* corners, the centre of a face and of an edge.
Probes ==
    {<<DIM \div 2, DIM \div 2, DIM \div 2>>, <<0, DIM \div 2, DIM \div 2>>, <<0, 0, DIM \div 2>>}
    \cup {<<x, y, z>> : x \in {0, DIM - 1}, y \in {0, DIM - 1}, z \in {0, DIM - 1}}

Seeds == {OneVoxel(c) : c \in nodeVoxels(<<0, 0, 0>>)} \cup {OneTile, TileAndVoxel}

InitMorph ==
    /\ Constructed(GridOf(TwoLeaves, RowOn, 1, 54), FALSE)
    /\ \E t \in Seeds :
        /\ leafMasks = t.leafMasks
        /\ activeTiles = t.activeTiles
        /\ seed = t
    /\ morphLog = <<>>
    /\ NoPoints
    /\ NoRest

\* The generations the calls of op ran so far.
Ran(op) ==
    SumRange([k \in DOMAIN morphLog |->
                 IF morphLog[k].op = op THEN morphLog[k].iterations ELSE 0],
             1, Len(morphLog))

Grown == Ran("dilateVoxels")

Shrunk == Ran("erodeVoxels")

OnlyFace ==
    \A k \in DOMAIN morphLog :
        morphLog[k].nn = "NN_FACE" /\ morphLog[k].op # "dilateActiveValues"

Depth == IF seed \in {OneVoxel(c) : c \in Probes} THEN Generations ELSE MaxRadius

\* A tree dilated (in one call or one generation a call), then eroded the
\* same way, once more than it was dilated at most; or dilated once with
\* another connectivity or with a tile policy.
NextMorph ==
    \/ \E iterations \in 1..Generations, nn \in NearestNeighbors :
        /\ OnlyFace /\ Shrunk = 0 /\ Grown + iterations <= Depth
        /\ iterations = 1 \/ morphLog = <<>>
        /\ nn = "NN_FACE" \/ (morphLog = <<>> /\ iterations = 1)
        /\ dilateVoxels(iterations, nn)
    \/ \E iterations \in 1..Generations :
        /\ OnlyFace /\ Grown >= 1 /\ Shrunk + iterations <= Grown + 1
        /\ iterations = 1 \/ (Shrunk = 0 /\ iterations = Grown)
        /\ erodeVoxels(iterations, "NN_FACE")
    \/ \E iterations \in 1..MaxRadius, nn \in NearestNeighbors, mode \in TilePolicy :
        /\ morphLog = <<>>
        /\ dilateActiveValues(iterations, nn, mode)

SpecMorph == InitMorph /\ [][NextMorph]_vars

SingleVoxelSeed == seed.activeTiles = {} /\ Cardinality(leafVoxels(seed)) = 1

SeedVoxel == CHOOSE c \in leafVoxels(seed) : TRUE

Abs(x) == IF x < 0 THEN -x ELSE x

\* The offsets of {-1,0,1}^3 with |dx|+|dy|+|dz| <= reach.
Within(reach) ==
    {d \in {<<x, y, z>> : x \in -1..1, y \in -1..1, z \in -1..1} :
        Abs(d[1]) + Abs(d[2]) + Abs(d[3]) <= reach}

Reach(nn) ==
    CASE nn = "NN_FACE" -> 1 [] nn = "NN_FACE_EDGE" -> 2 [] nn = "NN_FACE_EDGE_VERTEX" -> 3

\* One dilation of one generation is all that was called.
OneDilation ==
    /\ Len(morphLog) = 1
    /\ morphLog[1].op \in {"dilateVoxels", "dilateActiveValues"}
    /\ morphLog[1].iterations = 1

\* C13: one dilation of radius 1 of a tree whose only active voxel is at any
\* position of a leaf turns on exactly the voxels at the offsets of
\* {-1,0,1}^3 with |dx|+|dy|+|dz| <= 1 for NN_FACE (7 voxels), <= 2 for
\* NN_FACE_EDGE (19), <= 3 for NN_FACE_EDGE_VERTEX (27), and no other.
C13_DilationReachesNeighbours ==
    (SingleVoxelSeed /\ OneDilation) =>
        /\ activeTiles = {}
        /\ leafVoxels(Tree) = {Add(SeedVoxel, d) : d \in Within(Reach(morphLog[1].nn))}
        /\ \A c \in leafVoxels(seed), d \in Within(3) :
              isValueOn(Tree, Add(c, d)) <=> d \in Within(Reach(morphLog[1].nn))
        /\ activeVoxelCount(Tree) =
              (CASE morphLog[1].nn = "NN_FACE" -> 7
                 [] morphLog[1].nn = "NN_FACE_EDGE" -> 19
                 [] morphLog[1].nn = "NN_FACE_EDGE_VERTEX" -> 27)

\* A voxel at a corner of the leaf dilated into the eight nodes around it.
C13_CornerDilated ==
    /\ SingleVoxelSeed /\ OneDilation
    /\ SeedVoxel = <<DIM - 1, DIM - 1, DIM - 1>>
    /\ morphLog[1].nn = "NN_FACE_EDGE_VERTEX"
    /\ leafCount(Tree) = 8
    /\ activeVoxelCount(Tree) = 27

\* activeVoxelCount and leafCount after 0, 1, ... dilations of the voxel at
\* the centre of a leaf.
VoxelCounts == <<1, 7, 25, 63, 129, 231, 377, 575, 833, 1159, 1561>>

LeafCounts == <<1, 1, 1, 1, 4, 7, 7, 7, 10, 16, 19>>

Centre == <<DIM \div 2, DIM \div 2, DIM \div 2>>

\* Only NN_FACE dilations of voxels were called.
OnlyGrown == OnlyFace /\ Shrunk = 0

\* C14: from one active voxel at the centre (4,4,4) of a leaf, the active
\* voxel count after k = 0..10 generations of NN_FACE dilation is 1, 7, 25,
\* 63, 129, 231, 377, 575, 833, 1159, 1561 (and the leaf counts are those
\* of the same table).
C14_CountsOfRepeatedDilation ==
    (seed = OneVoxel(Centre) /\ OnlyGrown) =>
        /\ Grown \in 0..Generations
        /\ activeVoxelCount(Tree) = VoxelCounts[Grown + 1]
        /\ leafCount(Tree) = LeafCounts[Grown + 1]

\* Ten calls of one generation each have run from the centre voxel.
C14_TenDilations ==
    /\ seed = OneVoxel(Centre) /\ OnlyGrown
    /\ Len(morphLog) = Generations
    /\ Grown = Generations
    /\ activeVoxelCount(Tree) = 1561

\* NN_FACE dilations, then NN_FACE erosions of as many generations.
DilatedThenEroded == OnlyFace /\ Grown >= 1 /\ Shrunk = Grown

\* C15: a tree whose only active voxel is one voxel at any position of a
\* leaf, dilated by radius r with NN_FACE and then eroded by the same
\* radius (one call of r iterations or r calls of one), has exactly that
\* voxel active again; on the way back the counts are those of the way out.
C15_ErosionUndoesDilation ==
    /\ (SingleVoxelSeed /\ DilatedThenEroded) =>
          /\ Tree = seed
          /\ \A d \in Within(3) :
                isValueOn(Tree, Add(SeedVoxel, d)) <=> d = <<0, 0, 0>>
          /\ activeVoxelCount(Tree) = 1
    /\ (SingleVoxelSeed /\ OnlyFace /\ Shrunk <= Grown) =>
          activeVoxelCount(Tree) = VoxelCounts[Grown - Shrunk + 1]

\* The voxel at the corner (0,0,0) dilated by one call of ten iterations and
\* eroded by one call of ten iterations.
C15_TenOutTenBack ==
    /\ seed = OneVoxel(<<0, 0, 0>>)
    /\ DilatedThenEroded
    /\ Len(morphLog) = 2
    /\ morphLog[1].iterations = Generations
    /\ morphLog[2].op = "erodeVoxels"
    /\ Tree = seed

\* One dilateActiveValues of one generation with NN_FACE and tile policy
\* mode is all that was called on the tree of one active tile.
TileDilated(mode) ==
    /\ seed = OneTile
    /\ morphLog = <<[op |-> "dilateActiveValues", iterations |-> 1, nn |-> "NN_FACE",
                     mode |-> mode]>>

\* The leaf-sized nodes that share a face with the node at the origin.
FaceNodes == {<<DIM * d[1], DIM * d[2], DIM * d[3]>> : d \in FaceShifts}

\* C16: one leaf-sized (8^3) active tile dilated by one voxel with NN_FACE:
\* IGNORE_TILES changes nothing (0 leaves, 1 active tile, 512 active
\* voxels); EXPAND_TILES gives 7 leaves (the tile voxelised and one leaf a
\* face), 0 active tiles, (8+6)*8*8 = 896 active voxels; PRESERVE_TILES gives
\* 6 leaves (one a face), the tile still the only active tile, 896 active
\* voxels.
C16_TilePolicies ==
    /\ TileDilated("IGNORE_TILES") =>
          /\ Tree = seed
          /\ leafCount(Tree) = 0
          /\ activeTileCount(Tree) = 1
          /\ activeVoxelCount(Tree) = 512
    /\ TileDilated("EXPAND_TILES") =>
          /\ DOMAIN leafMasks = {<<0, 0, 0>>} \cup FaceNodes
          /\ leafMasks[<<0, 0, 0>>] = nodeVoxels(<<0, 0, 0>>)
          /\ leafCount(Tree) = 7
          /\ activeTileCount(Tree) = 0
          /\ activeVoxelCount(Tree) = 896
    /\ TileDilated("PRESERVE_TILES") =>
          /\ DOMAIN leafMasks = FaceNodes
          /\ leafCount(Tree) = 6
          /\ activeTiles = {<<0, 0, 0>>}
          /\ activeVoxelCount(Tree) = 896
    /\ \A mode \in {"EXPAND_TILES", "PRESERVE_TILES"} : TileDilated(mode) =>
          \A o \in FaceNodes : Cardinality(leafMasks[o]) = DIM * DIM

\* The tile was dilated with EXPAND_TILES: it is seven leaves now.
C16_TileExpanded ==
    /\ TileDilated("EXPAND_TILES")
    /\ leafCount(Tree) = 7
    /\ activeVoxelCount(Tree) = (DIM + 6) * DIM * DIM

\* ---------------------------------------------------------------------------
\* PointDelete.h: deleteFromGroups on a point data tree.  A leaf holds the
\* end offset of each voxel into its attribute arrays and one array an
\* attribute; each group of the descriptor is an array of membership bits.
\* ---------------------------------------------------------------------------

NumValues == 2      \* LeafNodeT::NUM_VALUES: voxels of a leaf
MaxPoints == 2      \* points in the first leaf

getLastValue(leaf) == leaf.offsets[NumValues]

\* The indices of all points of the leaf, and of the points of voxel v.
IndexAll(leaf) == [k \in 1..getLastValue(leaf) |-> k - 1]

IndexVoxel(leaf, v) ==
    LET start == IF v = 1 THEN 0 ELSE leaf.offsets[v - 1]
    IN  [k \in 1..(leaf.offsets[v] - start) |-> start + k - 1]

\* MultiGroupFilter: the names the descriptor lacks are dropped.
MultiGroupFilter(include, exclude, descriptor) ==
    [include |-> Range(include) \cap descriptor, exclude |-> Range(exclude) \cap descriptor]

\* A point passes if it is in an include group (or there is none) and in no
\* exclude group.
valid(filter, leaf, index) ==
    /\ \/ filter.include = {}
       \/ \E g \in filter.include : leaf.attributes[g][index + 1]
    /\ \A g \in filter.exclude : ~leaf.attributes[g][index + 1]

beginIndexAll(leaf, filter) ==
    SelectSeq(IndexAll(leaf), LAMBDA index : valid(filter, leaf, index))

beginIndexVoxel(leaf, v, filter) ==
    SelectSeq(IndexVoxel(leaf, v), LAMBDA index : valid(filter, leaf, index))

iterCount(iter) == Len(iter)

\* VectorWrapper over the index mapping: pairs (source, target).
sourceIndexIsTarget(data, index) == data[index + 1][2]

sourceIndex(data, index) == data[index + 1][1]

targetIndex(data, index) == data[index + 1][2]

\* newArray->copyValues(existingArray, wrapper): the loop over the wrapper.
RECURSIVE copyValues(_, _, _, _)
copyValues(newArray, existingArray, data, index) ==
    IF ~(index < Len(data)) THEN newArray
    ELSE copyValues([newArray EXCEPT ![targetIndex(data, index) + 1] =
                        existingArray[sourceIndex(data, index) + 1]],
                    existingArray, data, index + 1)

\* Mutation of voxelLoop: a voxel's end offset is the number of its own
\* points that pass the filter.
RECURSIVE voxelLoopOwnCount(_, _, _, _)
voxelLoopOwnCount(leaf, filter, v, acc) ==
    IF v > NumValues THEN acc
    ELSE LET iter == beginIndexVoxel(leaf, v, filter)
             attributeIndex == acc.attributeIndex + Len(iter)
         IN  voxelLoopOwnCount(leaf, filter, v + 1,
                 [indexMapping |-> acc.indexMapping \o
                      [k \in 1..Len(iter) |-> <<iter[k], acc.attributeIndex + k - 1>>],
                  attributeIndex |-> attributeIndex,
                  endOffsets |-> Append(acc.endOffsets, Len(iter))])

\* The loop over the voxels of the leaf: the points of the voxel that pass
\* the filter get the next attribute indices; the voxel's end offset is the
\* attribute index reached.
RECURSIVE voxelLoop(_, _, _, _)
voxelLoop(leaf, filter, v, acc) ==
    IF v > NumValues THEN acc
    ELSE LET iter == beginIndexVoxel(leaf, v, filter)
             attributeIndex == acc.attributeIndex + Len(iter)
         IN  voxelLoop(leaf, filter, v + 1,
                 [indexMapping |-> acc.indexMapping \o
                      [k \in 1..Len(iter) |-> <<iter[k], acc.attributeIndex + k - 1>>],
                  attributeIndex |-> attributeIndex,
                  endOffsets |-> Append(acc.endOffsets, attributeIndex)])

\* leaf->clearAttributes(updateValueMask = true)
clearAttributes(leaf) ==
    [offsets |-> [v \in 1..NumValues |-> 0],
     attributes |-> [name \in DOMAIN leaf.attributes |-> <<>>]]

\* The attributes that are no group: the position and an integer.
AttributeNames == {"P", "testAttribute"}

\* AttributeSet(existingAttributeSet, newSize): arrays of the new size, a
\* zero or a cleared membership bit an entry.
NewArray(name, newSize) == [k \in 1..newSize |-> IF name \in AttributeNames THEN 0 ELSE FALSE]

\* DeleteByFilterOp::operator() on one leaf.
DeleteByFilterOp(leaf, filter) ==
    LET newSize == iterCount(beginIndexAll(leaf, filter))
        currentSize == getLastValue(leaf)
        acc == voxelLoop(leaf, filter, 1,
                         [indexMapping |-> <<>>, attributeIndex |-> 0, endOffsets |-> <<>>])
    IN  IF newSize = 0 THEN clearAttributes(leaf)
        ELSE IF newSize = currentSize THEN leaf
        ELSE [offsets |-> acc.endOffsets,
              attributes |-> [name \in DOMAIN leaf.attributes |->
                  copyValues(NewArray(name, newSize),
                             leaf.attributes[name], acc.indexMapping, 0)]]

\* agents::pruneInactive: the leaves without an active voxel are removed.
pruneInactive(tree) ==
    [o \in {l \in DOMAIN tree : getLastValue(tree[l]) > 0} |-> tree[o]]

\* dropGroups(pointTree, groups): nothing to drop from without a leaf.
dropGroups(tree, descriptor, groups) ==
    IF DOMAIN tree = {} THEN descriptor ELSE descriptor \ Range(groups)

\* Mutation of dropsGroups: the invert flag is not looked at.
dropsGroupsInverted(invert, drop) == drop

dropsGroups(invert, drop) == drop /\ ~invert

\* Mutation of deleteFromGroupsResult: the filter includes the groups when
\* invert is off and excludes them when it is on.
deleteFromGroupsSwapped(tree, descriptor, groups, invert, drop) ==
    LET availableGroups == SelectSeq(groups, LAMBDA groupName : groupName \in descriptor)
        filter == IF invert THEN MultiGroupFilter(<<>>, groups, descriptor)
                  ELSE MultiGroupFilter(groups, <<>>, descriptor)
        pruned == pruneInactive([o \in DOMAIN tree |-> DeleteByFilterOp(tree[o], filter)])
    IN  IF DOMAIN tree = {} THEN [pointTree |-> tree, groupMap |-> descriptor]
        ELSE IF availableGroups = <<>> THEN [pointTree |-> tree, groupMap |-> descriptor]
        ELSE [pointTree |-> pruned,
              groupMap |-> IF dropsGroups(invert, drop)
                           THEN dropGroups(pruned, descriptor, availableGroups)
                           ELSE descriptor]

\* The tree and the groups of its descriptor after deleteFromGroups.
deleteFromGroupsResult(tree, descriptor, groups, invert, drop) ==
    LET availableGroups == SelectSeq(groups, LAMBDA groupName : groupName \in descriptor)
        filter == IF invert THEN MultiGroupFilter(groups, <<>>, descriptor)
                  ELSE MultiGroupFilter(<<>>, groups, descriptor)
        pruned == pruneInactive([o \in DOMAIN tree |-> DeleteByFilterOp(tree[o], filter)])
    IN  IF DOMAIN tree = {} THEN [pointTree |-> tree, groupMap |-> descriptor]
        ELSE IF availableGroups = <<>> THEN [pointTree |-> tree, groupMap |-> descriptor]
        ELSE [pointTree |-> pruned,
              groupMap |-> IF dropsGroups(invert, drop)
                           THEN dropGroups(pruned, descriptor, availableGroups)
                           ELSE descriptor]

deleteFromGroups(groups, invert, drop) ==
    /\ LET res == deleteFromGroupsResult(pointTree, groupMap, groups, invert, drop)
       IN  /\ pointTree' = res.pointTree
           /\ groupMap' = res.groupMap
    /\ deleteLog' = Append(deleteLog, [groups |-> groups, invert |-> invert, drop |-> drop])
    /\ UNCHANGED <<pointsBefore, registryLock, deleteCall, filterIdle, morphVars>>

deleteFromGroup(group, invert, drop) == deleteFromGroups(<<group>>, invert, drop)

\* The groups appended to the tree; test3 and test4 have no member.
Groups == {"test1", "test2", "test3", "test4"}

\* The lists of group names a caller passes ("absent" is no group of the tree).
GroupLists ==
    {<<>>, <<"test1">>, <<"test3">>, <<"test1", "test3">>, <<"test1", "test2", "test3">>,
     <<"absent">>, <<"test2", "absent">>}

\* A leaf of count points: the voxel of each point (points are stored voxel
\* by voxel), its groups, its position base + index and its integer index + 1.
LeafOf(count, voxel, member, base) ==
    [offsets |-> [v \in 1..NumValues |-> Cardinality({k \in 1..count : voxel[k] <= v})],
     attributes |-> [name \in AttributeNames \cup Groups |->
        [k \in 1..count |-> IF name = "P" THEN base + k
                            ELSE IF name = "testAttribute" THEN k
                            ELSE name \in member[k]]]]

VoxelOrder(count) ==
    {voxel \in [1..count -> 1..NumValues] : \A k \in 1..(count - 1) : voxel[k] <= voxel[k + 1]}

Leaves(sizes, base) ==
    UNION {{LeafOf(count, voxel, member, base) :
                voxel \in VoxelOrder(count),
                member \in [1..count -> SUBSET {"test1", "test2"}]} : count \in sizes}

\* The trees: no leaf, or a leaf at the origin of up to MaxPoints points,
\* alone or with a second leaf of one point.
PointTrees ==
    {<<>>}
    \cup {[o \in {<<0, 0, 0>>} |-> a] : a \in Leaves(1..MaxPoints, 0)}
    \cup {[o \in {<<0, 0, 0>>, <<96, 96, 96>>} |-> IF o = <<0, 0, 0>> THEN a ELSE b] :
             a \in Leaves(1..MaxPoints, 0), b \in Leaves({1}, 100)}

InitPoints ==
    /\ Constructed(GridOf(TwoLeaves, RowOn, 1, 54), FALSE)
    /\ EmptyTree
    /\ pointTree \in PointTrees
    /\ groupMap = Groups
    /\ pointsBefore = [pointTree |-> pointTree, groupMap |-> groupMap]
    /\ deleteLog = <<>>
    /\ registryLock = Unlocked
    /\ deleteCall = NoDelete
    /\ NoRest

\* One call of deleteFromGroups or deleteFromGroup on a tree.
NextPoints ==
    \/ \E groups \in GroupLists, invert \in BOOLEAN, drop \in BOOLEAN :
        /\ deleteLog = <<>>
        /\ deleteFromGroups(groups, invert, drop)
    \/ \E group \in Groups \cup {"absent"}, invert \in BOOLEAN, drop \in BOOLEAN :
        /\ deleteLog = <<>>
        /\ deleteFromGroup(group, invert, drop)

SpecPoints == InitPoints /\ [][NextPoints]_vars

\* The positions of the points of a tree, and of those in one of the groups.
pointsOf(tree) == UNION {Range(tree[o].attributes["P"]) : o \in DOMAIN tree}

pointCount(tree) == Cardinality(pointsOf(tree))

inGroups(tree, descriptor, groups) ==
    UNION {{tree[o].attributes["P"][k] : k \in
                {j \in 1..getLastValue(tree[o]) :
                    \E g \in Range(groups) \cap descriptor : tree[o].attributes[g][j]}} :
           o \in DOMAIN tree}

Deleted(invert) == Len(deleteLog) = 1 /\ deleteLog[1].invert = invert

\* The points of the tree before the call that are in one of the groups
\* the call names.
Members == inGroups(pointsBefore.pointTree, pointsBefore.groupMap, deleteLog[1].groups)

\* C17: deleteFromGroups(tree, groups, invert = false) removes exactly the
\* points that are members of at least one of the groups: the point count
\* afterwards is the number of points that belonged to none of them, and
\* every point that belonged to none of them is still there.
C17_MembersDeleted ==
    Deleted(FALSE) =>
        /\ pointsOf(pointTree) = pointsOf(pointsBefore.pointTree) \ Members
        /\ pointCount(pointTree) = pointCount(pointsBefore.pointTree) - Cardinality(Members)
        /\ \A o \in DOMAIN pointTree : getLastValue(pointTree[o]) > 0

\* Of three points in two leaves the two members were deleted, and the
\* second leaf with them.
C17_TwoOfThreeDeleted ==
    /\ Deleted(FALSE)
    /\ deleteLog[1].groups = <<"test1", "test2", "test3">>
    /\ pointCount(pointsBefore.pointTree) = 3
    /\ DOMAIN pointsBefore.pointTree = {<<0, 0, 0>>, <<96, 96, 96>>}
    /\ DOMAIN pointTree = {<<0, 0, 0>>}
    /\ pointCount(pointTree) = 1

\* C18: deleteFromGroups(tree, groups, invert = true) deletes every point
\* that belongs to none of the groups and keeps every point that belongs to
\* at least one of them, for every list of group names.
C18_NonMembersDeleted ==
    Deleted(TRUE) => pointsOf(pointTree) = Members

\* C19: after deleteFromGroups on a tree that still has points, a group is
\* gone from the descriptor if and only if the call named it, it existed,
\* drop is true and invert is false; no group is dropped with invert = true,
\* and no group the call did not name.
C19_GroupsDropped ==
    (Len(deleteLog) = 1 /\ pointCount(pointTree) > 0) =>
        /\ groupMap \subseteq pointsBefore.groupMap
        /\ \A g \in Groups \cup {"absent"} :
              (g \in pointsBefore.groupMap /\ g \notin groupMap)
              <=> /\ g \in Range(deleteLog[1].groups)
                  /\ g \in pointsBefore.groupMap
                  /\ deleteLog[1].drop
                  /\ ~deleteLog[1].invert
        /\ deleteLog[1].invert => groupMap = pointsBefore.groupMap

\* test2 was dropped, named next to a group the tree does not have; points
\* are left.
C19_OneGroupDropped ==
    /\ Deleted(FALSE)
    /\ deleteLog[1].groups = <<"test2", "absent">>
    /\ deleteLog[1].drop
    /\ groupMap = Groups \ {"test2"}
    /\ pointCount(pointTree) > 0
    /\ pointCount(pointTree) < pointCount(pointsBefore.pointTree)

\* The indices, in the leaf's arrays before the call, of the points of leaf
\* o that are still in the tree.
Survivors(o) ==
    SelectSeq([j \in 1..getLastValue(pointsBefore.pointTree[o]) |-> j],
              LAMBDA j : pointsBefore.pointTree[o].attributes["P"][j] \in pointsOf(pointTree))

\* The voxel of the point at index j (from 1) of a leaf.
VoxelOf(leaf, j) == CHOOSE v \in 1..NumValues : j <= leaf.offsets[v] /\ \A u \in 1..(v - 1) : j > leaf.offsets[u]

AllTasksDone == \A r \in DOMAIN tasks : tasks[r] = "done"

\* C21 as stated: the swap of a pass starts only after all leaf-range tasks
\* of the pass have completed, for every grain size.
C21_SwapAfterAllTasks == [][SwapStep => (pc = "swap" \/ AllTasksDone)]_vars

\* C21: the swap of a pass starts only after the dispatch has returned:
\* after the serial call, or after every task of the pass has completed, or
\* after the interrupter made a task cancel the group (the tasks not begun
\* are then never run); no task of a pass is left when the next pass starts,
\* and a pass starts only after the swap of the pass before it.
C21_SwapAfterDispatch ==
    /\ [][SwapStep =>
            /\ \/ pc = "swap"
               \/ AllTasksDone
               \/ cancelled /\ wasInterrupted
            /\ tasks' = <<>>
            /\ passLog' = passLog]_vars
    /\ [][Len(passLog') > Len(passLog) => pc = "cook" /\ tasks = <<>>]_vars
    /\ [][(pc = "tasks" /\ pc' = "tasks" /\ tasks' # tasks) =>
            \E r \in DOMAIN tasks :
                /\ tasks[r] = "pending"
                /\ tasks' = [tasks EXCEPT ![r] = "done"]]_vars
    /\ [](pc \notin {"tasks"} => tasks = <<>>)

\* The second pass of a call runs in parallel: one of its tasks is done,
\* another pending, and the interrupter has not signalled.
C21_SecondPassRunning ==
    /\ pc = "tasks"
    /\ Len(passLog) = 2
    /\ ~interrupted
    /\ \E r \in DOMAIN tasks : tasks[r] = "done"
    /\ \E r \in DOMAIN tasks : tasks[r] = "pending"

\* The step of the parallel task of range r.
TaskStep(r) == pc = "tasks" /\ pc' = "tasks" /\ tasks[r] = "pending" /\ tasks'[r] = "done"

\* The voxels of the leaves of range r.
Own(r) == AllLeafCoords(RangeLeaves(G, r))

\* C22: during a parallel pass every leaf is in the leaf range of exactly
\* one task; a task writes only buffers of the leaves of its range; and no
\* task writes what another task reads or writes in the pass: box and median
\* tasks read the leaves' own buffers, which no task writes, and write
\* buffer 1 of their leaves; an offset task reads and writes only the voxels
\* of its own leaves, which no task has touched before it.
C22_TasksAreLeafExclusive ==
    /\ [](pc = "tasks" =>
            \A k \in 1..Len(leafs.leafArray) :
                Cardinality({r \in DOMAIN tasks : r[1] < k /\ k <= r[2]}) = 1)
    /\ [][\A r \in DOMAIN tasks : TaskStep(r) =>
            /\ leafSet' = leafSet /\ valueMask' = valueMask
            /\ \A c \in DOMAIN buffer0 \ Own(r) : buffer0'[c] = buffer0[c]
            /\ \A c \in DOMAIN leafs.auxBuffer \ Own(r) : leafs'.auxBuffer[c] = leafs.auxBuffer[c]
            /\ mTask.fn # "doOffset" => buffer0' = buffer0 /\ buffer0 = prev
            /\ mTask.fn = "doOffset" =>
                  /\ leafs'.auxBuffer = leafs.auxBuffer
                  /\ \A c \in Own(r) : buffer0[c] = prev[c]]_vars

\* The second of two median tasks has run after the first: both wrote
\* buffer 1 of their own leaf.
C22_BothTasksRan ==
    /\ pc = "tasks"
    /\ mTask.fn = "doMedian"
    /\ Cardinality(DOMAIN tasks) = 2
    /\ AllTasksDone
    /\ leafs.auxBuffer # buffer0


\* ------------------------------------------------------------------------
\* deleteFromGroups step by step: the attribute registry's lock
\* ------------------------------------------------------------------------

\* AttributeArray::ScopedRegistryLock lock; and the end of its scope.
ScopedRegistryLock(registry) == [registry EXCEPT !.held = TRUE, !.acquired = @ + 1]

ReleaseRegistryLock(registry) == [registry EXCEPT !.held = FALSE, !.released = @ + 1]

\* Mutation of mLock: the operator keeps no lock, its arrays are created
\* without one.
mLockNull(lock) == "nullptr"

\* DeleteByFilterOp's constructor keeps the pointer to the caller's lock.
mLock(lock) == lock

\* The creation of an attribute array from the registry: it takes the
\* registry's lock for itself when its caller passes none.
create(registry, lock) ==
    IF lock = "nullptr"
    THEN ReleaseRegistryLock(ScopedRegistryLock(registry))
    ELSE registry

\* The leaves DeleteByFilterOp makes new arrays for: those it clears and
\* those it keeps some points of.
createsArrays(leaf, filter) ==
    LET newSize == iterCount(beginIndexAll(leaf, filter))
    IN  newSize = 0 \/ newSize # getLastValue(leaf)

availableGroups(groups, descriptor) ==
    SelectSeq(groups, LAMBDA groupName : groupName \in descriptor)

\* The filter of the call: invert keeps the members, otherwise it keeps
\* the points of none of the groups.
filterOfCall(groups, invert, descriptor) ==
    IF invert THEN MultiGroupFilter(groups, <<>>, descriptor)
    ELSE MultiGroupFilter(<<>>, groups, descriptor)

\* deleteFromGroups up to the registry lock: it returns when the tree has
\* no leaf or none of the groups.
enterDelete(groups, invert, drop) ==
    /\ deleteCall.pc = "idle"
    /\ deleteCall' = [pc |-> IF DOMAIN pointTree = {} THEN "done"
                             ELSE IF availableGroups(groups, groupMap) = <<>> THEN "done"
                             ELSE "lock",
                      groups |-> groups, invert |-> invert, drop |-> drop, pending |-> {}]
    /\ deleteLog' = Append(deleteLog, [groups |-> groups, invert |-> invert, drop |-> drop])
    /\ UNCHANGED <<pointTree, groupMap, pointsBefore, registryLock, filterIdle, morphVars>>

\* The lock is taken, the leaf manager and the operator are made and the
\* parallel_for is started over all the leaves.
acquireRegistryLock ==
    /\ deleteCall.pc = "lock"
    /\ registryLock' = ScopedRegistryLock(registryLock)
    /\ deleteCall' = [deleteCall EXCEPT !.pc = "parallel", !.pending = DOMAIN pointTree]
    /\ UNCHANGED <<pointTree, groupMap, pointsBefore, deleteLog, filterIdle, morphVars>>

\* One leaf of a range of the parallel_for.
leafTask(o) ==
    /\ deleteCall.pc = "parallel"
    /\ o \in deleteCall.pending
    /\ LET filter == filterOfCall(deleteCall.groups, deleteCall.invert, groupMap)
       IN  /\ pointTree' = [pointTree EXCEPT ![o] = DeleteByFilterOp(pointTree[o], filter)]
           /\ registryLock' = IF createsArrays(pointTree[o], filter)
                              THEN create(registryLock, mLock("lock"))
                              ELSE registryLock
    /\ deleteCall' = [deleteCall EXCEPT !.pending = @ \ {o}]
    /\ UNCHANGED <<groupMap, pointsBefore, deleteLog, filterIdle, morphVars>>

\* The parallel_for has returned: the scope of the lock ends.
releaseRegistryLock ==
    /\ deleteCall.pc = "parallel"
    /\ deleteCall.pending = {}
    /\ registryLock' = ReleaseRegistryLock(registryLock)
    /\ deleteCall' = [deleteCall EXCEPT !.pc = "prune"]
    /\ UNCHANGED <<pointTree, groupMap, pointsBefore, deleteLog, filterIdle, morphVars>>

pruneStep ==
    /\ deleteCall.pc = "prune"
    /\ pointTree' = pruneInactive(pointTree)
    /\ deleteCall' = [deleteCall EXCEPT
                        !.pc = IF dropsGroups(deleteCall.invert, deleteCall.drop)
                               THEN "drop" ELSE "done"]
    /\ UNCHANGED <<groupMap, pointsBefore, deleteLog, registryLock, filterIdle, morphVars>>

dropStep ==
    /\ deleteCall.pc = "drop"
    /\ groupMap' = dropGroups(pointTree, groupMap,
                              availableGroups(deleteCall.groups, groupMap))
    /\ deleteCall' = [deleteCall EXCEPT !.pc = "done"]
    /\ UNCHANGED <<pointTree, pointsBefore, deleteLog, registryLock, filterIdle, morphVars>>

NextLock ==
    \/ \E groups \in GroupLists, invert \in BOOLEAN, drop \in BOOLEAN :
        enterDelete(groups, invert, drop)
    \/ acquireRegistryLock
    \/ \E o \in DOMAIN pointTree : leafTask(o)
    \/ releaseRegistryLock
    \/ pruneStep
    \/ dropStep

SpecLock == InitPoints /\ [][NextLock]_vars

\* The lock after its one acquisition, and after its release.
LockedOnce == [held |-> TRUE, acquired |-> 1, released |-> 0]

ReleasedOnce == [held |-> FALSE, acquired |-> 1, released |-> 1]

\* The call returned before the lock: no leaf, or none of the groups.
ReturnedEarly ==
    \/ DOMAIN pointsBefore.pointTree = {}
    \/ availableGroups(deleteCall.groups, pointsBefore.groupMap) = <<>>

\* C23: deleteFromGroups takes the registry lock once, before the first
\* leaf is visited, holds it while the leaves are visited (no leaf task
\* takes or releases it), and releases it once, after the last leaf and
\* before the pruning and the dropping of groups; a call that returns
\* before the deletion never takes it. The steps make the tree and the
\* groups the whole call makes.
C23_OneLockAroundLeafTasks ==
    /\ [](deleteCall.pc \in {"idle", "lock"} =>
            registryLock = Unlocked /\ pointTree = pointsBefore.pointTree)
    /\ [](deleteCall.pc = "parallel" => registryLock = LockedOnce)
    /\ [](deleteCall.pc \in {"prune", "drop"} => registryLock = ReleasedOnce)
    /\ [](deleteCall.pc = "done" =>
            /\ registryLock = IF ReturnedEarly THEN Unlocked ELSE ReleasedOnce
            /\ [pointTree |-> pointTree, groupMap |-> groupMap] =
                 deleteFromGroupsResult(pointsBefore.pointTree, pointsBefore.groupMap,
                                        deleteCall.groups, deleteCall.invert,
                                        deleteCall.drop))
    /\ [][registryLock'.acquired # registryLock.acquired =>
            /\ deleteCall.pc = "lock"
            /\ deleteCall'.pending = DOMAIN pointTree
            /\ pointTree' = pointsBefore.pointTree]_vars
    /\ [][registryLock'.released # registryLock.released =>
            /\ deleteCall.pc = "parallel"
            /\ deleteCall.pending = {}
            /\ deleteCall'.pc = "prune"
            /\ pointTree' = pointTree /\ groupMap' = groupMap]_vars
    /\ [][deleteCall'.pending # deleteCall.pending /\ deleteCall.pc = "parallel" =>
            registryLock.held /\ registryLock' = registryLock]_vars
    /\ [][(pointTree' # pointTree \/ groupMap' # groupMap) =>
            \/ deleteCall.pc = "parallel" /\ registryLock.held
            \/ deleteCall.pc \in {"prune", "drop"} /\ ~registryLock.held]_vars

\* Both leaves lost a point under one acquisition of the lock, a leaf
\* was pruned and a group dropped.
C23_TwoLeavesUnderOneLock ==
    /\ deleteCall.pc = "done"
    /\ registryLock = ReleasedOnce
    /\ DOMAIN pointsBefore.pointTree = {<<0, 0, 0>>, <<96, 96, 96>>}
    /\ DOMAIN pointTree = {<<0, 0, 0>>}
    /\ getLastValue(pointTree[<<0, 0, 0>>]) < getLastValue(pointsBefore.pointTree[<<0, 0, 0>>])
    /\ groupMap # pointsBefore.groupMap


\* ------------------------------------------------------------------------
\* Voxels no pass writes
\* ------------------------------------------------------------------------
\* The voxels of the leaves that no task of the call writes: the inactive
\* ones, and the active ones the mask gives an alpha of zero.
NeverWritten == {c \in DOMAIN buffer0 : c \notin valueMask \/ alpha(F, c).a = 0}

\* C24: in mean, gaussian and median, a voxel the passes never write
\* (inactive, or active with alpha zero) has the value it had when the
\* operation was called, in the primary buffer after every pass and its
\* swap, and in the scratch buffer as well, which began as a copy.
C24_UnwrittenVoxelsKeepValue ==
    (BoxOrMedian /\ callLog # <<>>) =>
        \A c \in NeverWritten :
            /\ buffer0[c] = ref[c]
            /\ pc # "idle" => leafs.auxBuffer[c] = ref[c]

\* The fourth pass of a masked mean is done: an active voxel of alpha zero
\* and an inactive voxel are in the leaves, other voxels have changed.
C24_KeptThroughFourPasses ==
    /\ call.op = "mean" /\ mMask # 0 /\ PassDone /\ Len(passLog) = 4
    /\ \E c \in valueMask : alpha(F, c).a = 0
    /\ DOMAIN buffer0 # valueMask
    /\ \E c \in valueMask : buffer0[c] # ref[c]


\* ------------------------------------------------------------------------
\* The interrupter's start() and end()
\* ------------------------------------------------------------------------
\* The calls of start() and of end() an operation owes its interrupter.
Owed == IF mInterrupter THEN 1 ELSE 0

\* C25: mean, gaussian, median and offset call start() once, before the
\* first pass, and end() once, after the last pass, when the Filter has an
\* interrupter: whatever the number of iterations (zero included) and
\* whenever the interrupter signals.  Without an interrupter neither is
\* called.
C25_StartAndEndOnce ==
    /\ [](callLog = <<>> => startCalls = 0 /\ endCalls = 0)
    /\ [](pc # "idle" => startCalls = Owed /\ endCalls = 0)
    /\ [](pc = "idle" /\ callLog # <<>> => startCalls = Owed /\ endCalls = Owed)
    /\ [][startCalls' # startCalls => pc = "idle" /\ passLog' = <<>>]_vars
    /\ [][Len(passLog') > Len(passLog) => startCalls = Owed /\ endCalls = 0]_vars
    /\ [][endCalls' # endCalls => pc = "end" /\ pc' = "idle" /\ tasks = <<>>]_vars
    /\ [][pc = "end" => pc' \in {"end", "idle"} /\ buffer0' = buffer0 /\ passLog' = passLog]_vars

\* A mean of two iterations that the signal cut short has returned: start()
\* and end() were called once each.
C25_InterruptedMeanEnded ==
    /\ Returned("mean") /\ call.iterations = 2
    /\ interrupted /\ passLog # <<>> /\ Len(passLog) < 6
    /\ startCalls = 1 /\ endCalls = 1


\* ------------------------------------------------------------------------
\* The offsets of a leaf that lost some of its points
\* ------------------------------------------------------------------------
\* The indices (from 1) of the points of leaf o, as it was before the call,
\* that pass the filter of the call.
Kept(o) ==
    LET leaf == pointsBefore.pointTree[o]
        filter == filterOfCall(deleteLog[1].groups, deleteLog[1].invert, pointsBefore.groupMap)
    IN  SelectSeq([j \in 1..getLastValue(leaf) |-> j], LAMBDA j : valid(filter, leaf, j - 1))

\* The leaves the call deleted some points of and not all; a call that
\* returns for want of a group deletes nothing.
PartlyDeleted ==
    IF availableGroups(deleteLog[1].groups, pointsBefore.groupMap) = <<>> THEN {}
    ELSE {o \in DOMAIN pointsBefore.pointTree :
            /\ Len(Kept(o)) > 0
            /\ Len(Kept(o)) < getLastValue(pointsBefore.pointTree[o])}

\* C26: after deleteFromGroups, a leaf that lost some but not all of its
\* points is still in the tree, its end offsets do not decrease from voxel
\* to voxel, and its last offset is the number of its points that
\* survived, which is the size of each array of its new attribute set.
C26_OffsetsOfPartlyDeletedLeaf ==
    Len(deleteLog) = 1 =>
        \A o \in PartlyDeleted :
            /\ o \in DOMAIN pointTree
            /\ pointTree[o].offsets[1] >= 0
            /\ \A v \in 1..(NumValues - 1) :
                  pointTree[o].offsets[v] <= pointTree[o].offsets[v + 1]
            /\ getLastValue(pointTree[o]) = Len(Kept(o))
            /\ Survivors(o) = Kept(o)
            /\ \A name \in DOMAIN pointTree[o].attributes :
                  Len(pointTree[o].attributes[name]) = Len(Kept(o))

\* A leaf of two points in its first voxel has lost one: both its offsets
\* are one, and so is the size of its arrays.
C26_OneOfTwoLeft ==
    /\ Len(deleteLog) = 1
    /\ <<0, 0, 0>> \in PartlyDeleted
    /\ pointsBefore.pointTree[<<0, 0, 0>>].offsets = <<2, 2>>
    /\ pointTree[<<0, 0, 0>>].offsets = <<1, 1>>
    /\ Len(pointTree[<<0, 0, 0>>].attributes["P"]) = 1


\* ------------------------------------------------------------------------
\* Operator-based statistics (openvdb/agents/Statistics.h): MathOp
\* ------------------------------------------------------------------------
TileDim == 2        \* voxels per edge of a tile

\* The value the accessor reads at xyz: the tile's inside its bounding box,
\* a voxel's where one is stored, the background elsewhere.
InBBox(bbox, xyz) == \A d \in 1..3 : bbox.min[d] <= xyz[d] /\ xyz[d] <= bbox.max[d]

accGetValue(tree, xyz) ==
    IF InBBox(tree.tile.bbox, xyz) THEN tree.tile.value
    ELSE IF xyz \in DOMAIN tree.voxels THEN tree.voxels[xyz]
    ELSE tree.background

\* The operators: the index-space Laplacian (second-order central
\* differences) and the forward difference along x.
Operators == {"ISLaplacian", "ForwardDifferenceX"}

result(op, tree, xyz) ==
    IF op = "ISLaplacian"
    THEN accGetValue(tree, Add(xyz, <<1, 0, 0>>)) + accGetValue(tree, Add(xyz, <<-1, 0, 0>>))
         + accGetValue(tree, Add(xyz, <<0, 1, 0>>)) + accGetValue(tree, Add(xyz, <<0, -1, 0>>))
         + accGetValue(tree, Add(xyz, <<0, 0, 1>>)) + accGetValue(tree, Add(xyz, <<0, 0, -1>>))
         - 6 * accGetValue(tree, xyz)
    ELSE accGetValue(tree, Add(xyz, <<1, 0, 0>>)) - accGetValue(tree, xyz)

\* math::Stats and math::Extrema: add(val).
NoStatistics == [size |-> 0, sum |-> 0, min |-> 0, max |-> 0]

StatsAdd(stats, val) ==
    [size |-> stats.size + 1,
     sum  |-> stats.sum + val,
     min  |-> IF stats.size = 0 \/ val < stats.min THEN val ELSE stats.min,
     max  |-> IF stats.size = 0 \/ val > stats.max THEN val ELSE stats.max]

RECURSIVE StatsAddAll(_, _, _)
StatsAddAll(stats, vals, from) ==
    IF from > Len(vals) THEN stats
    ELSE StatsAddAll(StatsAdd(stats, vals[from]), vals, from + 1)

\* The coordinates of for (x ...) for (y ...) for (z ...) over the box, in
\* the order of the loops.
BBoxLoop(bbox) ==
    LET nx == bbox.max[1] - bbox.min[1] + 1
        ny == bbox.max[2] - bbox.min[2] + 1
        nz == bbox.max[3] - bbox.min[3] + 1
    IN  [j \in 1..(nx * ny * nz) |->
            <<bbox.min[1] + ((j - 1) \div (ny * nz)),
              bbox.min[2] + (((j - 1) \div nz) % ny),
              bbox.min[3] + ((j - 1) % nz)>>]

\* The coordinates the operator is applied at for one item of the
\* iterator: the voxel's; for a tile, it.getCoord() at every turn of the
\* loops over its bounding box.
appliedAt(it) ==
    IF it.isVoxelValue THEN <<it.getCoord>>
    ELSE [j \in 1..Len(BBoxLoop(it.getBoundingBox)) |-> it.getCoord]

\* MathOp::operator()(it), called by accumulate for every item.
MathOp(it) ==
    /\ it \in iterItems
    /\ applied' = applied \o appliedAt(it)
    /\ mStats' = StatsAddAll(mStats,
                    [j \in 1..Len(appliedAt(it)) |-> result(mOp, statsTree, appliedAt(it)[j])], 1)
    /\ iterItems' = iterItems \ {it}
    /\ UNCHANGED <<statsTree, mOp, coreVars, quadVars, sizeVars>>

\* The items of an iterator over the active values: the tile (its
\* coordinate is the minimum of its bounding box) and the voxels.
ItemsOf(tree) ==
    {[isVoxelValue |-> FALSE, getCoord |-> tree.tile.bbox.min, getBoundingBox |-> tree.tile.bbox]}
    \cup {[isVoxelValue |-> TRUE, getCoord |-> c, getBoundingBox |-> [min |-> c, max |-> c]] :
             c \in DOMAIN tree.voxels}

TileAt(origin) == [min |-> origin, max |-> Add(origin, <<TileDim - 1, TileDim - 1, TileDim - 1>>)]

\* The trees: a tile of value 1 or 2 over a background of 0, alone or with
\* a voxel at one of its faces.
StatsTrees ==
    {[background |-> 0, tile |-> [bbox |-> TileAt(origin), value |-> value], voxels |-> voxels] :
        origin \in {<<0, 0, 0>>, <<TileDim, 0, 0>>},
        value \in {1, 2},
        voxels \in {<<>>} \cup {[c \in {at} |-> v] :
                        at \in {<<-1, 0, 0>>, <<2 * TileDim, 0, 0>>}, v \in 0..2}}

InitStats ==
    /\ Constructed(GridOf(TwoLeaves, RowOn, 1, 54), FALSE)
    /\ EmptyTree /\ NoPoints /\ NoQuad /\ NoSize
    /\ statsTree \in StatsTrees
    /\ mOp \in Operators
    /\ iterItems = ItemsOf(statsTree)
    /\ mStats = NoStatistics
    /\ applied = <<>>

\* opStatistics, opExtrema: accumulate calls the functor on every item.
NextStats == \E it \in iterItems : MathOp(it)

SpecStats == InitStats /\ [][NextStats]_vars

\* The results of the operator at the voxels of a box, each at its own
\* coordinate.
ResultsOver(bbox) ==
    [j \in 1..Len(BBoxLoop(bbox)) |-> result(mOp, statsTree, BBoxLoop(bbox)[j])]

\* C27: for a tile, MathOp applies the operator once at every voxel
\* coordinate inside the tile's bounding box, each time at that voxel's
\* own coordinate, and adds each result to the statistics.
C27_TileVoxelsAtOwnCoordinate ==
    [][\A it \in iterItems :
          (~it.isVoxelValue /\ iterItems' = iterItems \ {it}) =>
              /\ applied' = applied \o BBoxLoop(it.getBoundingBox)
              /\ mStats' = StatsAddAll(mStats, ResultsOver(it.getBoundingBox), 1)]_vars


\* ------------------------------------------------------------------------
\* Adaptive trapezoidal quadrature (boost/math/quadrature/trapezoidal.hpp)
\* ------------------------------------------------------------------------
\* Reals are integers here: the interval has length 2^(MaxRefinements + 1)
\* and the integrands take integer values at integers, so that every
\* halving of the loop is exact.
MaxRefinements == 5     \* largest max_refinements passed to trapezoidal

Span == 2 ^ (MaxRefinements + 1)

\* An endpoint: a number, or an infinity.
Finite(v) == [v |-> v, finite |-> TRUE]

Infinite == [v |-> 0, finite |-> FALSE]

\* The integrands.
Integrands == {"one", "identity", "square", "kink"}

f(name, x) ==
    CASE name = "one" -> 1
      [] name = "identity" -> x
      [] name = "square" -> x * x
      [] name = "kink" -> Abs(x - 3)

half(x) == x \div 2

\* error > tol*IL1, the tolerance being tol.num / tol.den.
Exceeds(error, tol, IL1) == error * tol.den > tol.num * IL1

\* The sample points of the for loop: a + j*h for the odd j below p.
OddPoints(a, h, p) == [j \in 1..(p \div 2) |-> a + (2 * j - 1) * h]

\* The sum of f, or of its absolute value, over sample points.
RECURSIVE SumOver(_, _, _, _)
SumOver(name, points, from, absolute) ==
    IF from > Len(points) THEN 0
    ELSE (IF absolute THEN Abs(f(name, points[from])) ELSE f(name, points[from]))
         + SumOver(name, points, from + 1, absolute)

\* trapezoidal up to its loop: the checks of the endpoints, then f at a, at
\* b and at the middle.
trapezoidal(name, a, b, tol, max_refinements) ==
    /\ quadState.pc = "idle"
    /\ quadArgs' = [f |-> name, a |-> a, b |-> b, tol |-> tol, max_refinements |-> max_refinements]
    /\ IF (a.finite /\ b.finite /\ a.v >= b.v) \/ ~a.finite \/ ~b.finite
       THEN /\ quadState' = [pc |-> "domain_error"]
            /\ samples' = <<>>
       ELSE LET ya == f(name, a.v)
                yb == f(name, b.v)
                h  == half(b.v - a.v)
                I0 == (ya + yb) * h
                IL0 == (Abs(ya) + Abs(yb)) * h
                yh == f(name, a.v + h)
                I1 == half(I0) + yh * h
                IL1 == half(IL0) + Abs(yh) * h
            IN  /\ quadState' = [pc |-> "while", k |-> 2, h |-> h, I0 |-> I0, IL0 |-> IL0,
                                 I1 |-> I1, IL1 |-> IL1, error |-> Abs(I0 - I1)]
                /\ samples' = <<a.v, b.v, a.v + h>>
    /\ UNCHANGED <<coreVars, statVars, sizeVars>>

\* while (k < 4 || (k < max_refinements && error > tol*IL1))
whileCondition ==
    \/ quadState.k < 4
    \/ /\ quadState.k < quadArgs.max_refinements
       /\ Exceeds(quadState.error, quadArgs.tol, quadState.IL1)

\* One turn of the loop: the step is halved and f is evaluated at the new
\* points between the old ones.
refine ==
    /\ quadState.pc = "while"
    /\ whileCondition
    /\ LET I0 == quadState.I1
           IL0 == quadState.IL1
           p == 2 ^ quadState.k
           h == half(quadState.h)
           points == OddPoints(quadArgs.a.v, h, p)
           I1 == half(I0) + SumOver(quadArgs.f, points, 1, FALSE) * h
           IL1 == half(IL0) + SumOver(quadArgs.f, points, 1, TRUE) * h
       IN  /\ quadState' = [pc |-> "while", k |-> quadState.k + 1, h |-> h, I0 |-> I0,
                            IL0 |-> IL0, I1 |-> I1, IL1 |-> IL1, error |-> Abs(I0 - I1)]
           /\ samples' = samples \o points
    /\ UNCHANGED <<quadArgs, coreVars, statVars, sizeVars>>

\* The loop is left: I1 is returned.
trapezoidalReturn ==
    /\ quadState.pc = "while"
    /\ ~whileCondition
    /\ quadState' = [quadState EXCEPT !.pc = "returned"]
    /\ UNCHANGED <<quadArgs, samples, coreVars, statVars, sizeVars>>

Tolerances == {[num |-> 0, den |-> 1], [num |-> 1, den |-> 100], [num |-> 1, den |-> 1]}

InitQuad ==
    /\ Constructed(GridOf(TwoLeaves, RowOn, 1, 54), FALSE)
    /\ EmptyTree /\ NoPoints /\ NoStats /\ NoSize
    /\ NoQuad

NextQuad ==
    \/ /\ quadState.pc = "idle"
       /\ \E name \in Integrands,
             a \in {Finite(0), Finite(-(Span \div 2)), Infinite},
             b \in {Finite(Span), Finite(Span \div 2), Finite(0), Infinite},
             tol \in Tolerances,
             max_refinements \in 0..MaxRefinements :
               trapezoidal(name, a, b, tol, max_refinements)
    \/ refine
    \/ trapezoidalReturn

SpecQuad == InitQuad /\ [][NextQuad]_vars

\* C28: a call of trapezoidal with a < b, both finite, has evaluated the
\* integrand at ten sample points or more when it returns, whatever tol
\* and max_refinements.
C28_TenSamples == quadState.pc = "returned" => Len(samples) >= 10


\* ------------------------------------------------------------------------
\* computeVoxelSize (openvdb/points/PointConversion.h)
\* ------------------------------------------------------------------------
\* Lengths are integers, the unit being 1e-5: the default voxel size 0.1
\* is 10^4 units, the smallest voxel volume 3e-15 is 3 cubic units.  The
\* largest one, FLT_MAX, is beyond every volume of the model.  A voxel
\* size is kept to the unit (rounded down) where the code keeps a float.
MaxPositions == 4       \* points passed to computeVoxelSize

defaultVoxelSize == 10 ^ 4

minimumVoxelVolume == 3

\* The largest integer whose cube is at most v.
RECURSIVE CbrtFrom(_, _)
CbrtFrom(v, r) == IF (r + 1) * (r + 1) * (r + 1) > v THEN r ELSE CbrtFrom(v, r + 1)

ICbrt(v) == CbrtFrom(v, 0)

\* Local::voxelSizeFromVolume: the cube root of volume / estimatedVoxelCount,
\* clamped from below; valid tells whether it was in range.
voxelSizeFromVolume(volume, estimatedVoxelCount) ==
    IF volume < minimumVoxelVolume * estimatedVoxelCount
    THEN [valid |-> FALSE, voxelSize |-> ICbrt(minimumVoxelVolume)]
    ELSE [valid |-> TRUE, voxelSize |-> ICbrt(volume \div estimatedVoxelCount)]

\* math::Truncate(x, digits): x cut to so many decimal places.
Truncate(x, digits) ==
    IF digits >= 5 THEN x ELSE (x \div (10 ^ (5 - digits))) * (10 ^ (5 - digits))

\* Local::truncate: the first of decPlaces .. 10 places that leaves a
\* size other than zero.
RECURSIVE truncate(_, _)
truncate(voxelSize, decPlaces) ==
    IF decPlaces >= 11 THEN voxelSize
    ELSE IF Truncate(voxelSize, decPlaces) # 0 \/ decPlaces = 10 THEN Truncate(voxelSize, decPlaces)
    ELSE truncate(voxelSize, decPlaces + 1)

\* The bounding box of the positions and its extents, largest first.
Extent(positions, d) ==
    LET xs == {positions[j][d] : j \in DOMAIN positions}
    IN  (CHOOSE hi \in xs : \A x \in xs : x <= hi) - (CHOOSE lo \in xs : \A x \in xs : lo <= x)

SortedExtents(positions) ==
    LET e == [d \in 1..3 |-> Extent(positions, d)]
        top == CHOOSE d \in 1..3 : \A q \in 1..3 : e[q] <= e[d]
        low == CHOOSE d \in (1..3) \ {top} : \A q \in (1..3) \ {top} : e[d] <= e[q]
        mid == CHOOSE d \in (1..3) \ {top, low} : TRUE
    IN  <<e[top], e[mid], e[low]>>

\* The volume of the box; that of a cube or slab around points on a line
\* or in a plane (a volume of at most 1e-15 is approximately zero).
initialVolume(positions) ==
    LET extents == SortedExtents(positions)
        volume == extents[1] * extents[2] * extents[3]
    IN  IF volume > 1 THEN volume
        ELSE IF extents[2] = 0 THEN extents[1] * extents[1] * extents[1]
        ELSE extents[1] * extents[2] * extents[2]

\* PointsToMask::addPoints and activeVoxelCount: the voxels of the given
\* size the points round to.
maskActiveVoxelCount(positions, voxelSize) ==
    Cardinality({[d \in 1..3 |-> (2 * positions[j][d] + voxelSize) \div (2 * voxelSize)] :
                    j \in DOMAIN positions})

\* computeVoxelSize up to its loop.
computeVoxelSize(positions, pointsPerVoxel, decimalPlaces, interrupter) ==
    /\ sizeState.pc = "idle"
    /\ sizeArgs' = [positions |-> positions, pointsPerVoxel |-> pointsPerVoxel,
                    decimalPlaces |-> decimalPlaces, interrupter |-> interrupter]
    /\ LET numPoints == Len(positions)
           target == IF numPoints \div Max(1, pointsPerVoxel) = 0 THEN 1
                     ELSE numPoints \div Max(1, pointsPerVoxel)
           volume == initialVolume(positions)
           sized == voxelSizeFromVolume(volume, target)
       IN  sizeState' =
             IF pointsPerVoxel = 0 THEN [pc |-> "ValueError"]
             ELSE IF numPoints <= 1 THEN [pc |-> "returned", voxelSize |-> defaultVoxelSize]
             ELSE IF \A d \in 1..3 : Extent(positions, d) = 0
                  THEN [pc |-> "returned", voxelSize |-> defaultVoxelSize]
             ELSE IF ~sized.valid THEN [pc |-> "returned", voxelSize |-> sized.voxelSize]
             ELSE [pc |-> "while", voxelSize |-> sized.voxelSize, volume |-> volume,
                   previousVolume |-> volume, targetVoxelCount |-> target,
                   previousVoxelCount |-> 0, voxelCount |-> 1,
                   previousVoxelSize |-> sized.voxelSize, volumeBefore |-> volume,
                   iterations |-> 0]
    /\ UNCHANGED <<coreVars, statVars, quadVars>>

\* Mutation of loopCondition: the loop goes on while the count has not
\* decreased.
loopConditionNotLess == sizeState.voxelCount >= sizeState.previousVoxelCount

\* while (voxelCount > previousVoxelCount)
loopCondition == sizeState.voxelCount > sizeState.previousVoxelCount

\* One turn of the loop; the interrupter, if there is one, may have been
\* signalled when it is asked.  volumeBefore keeps the volume the turn
\* compared its own with, iterations counts the turns.
loopBody(wasSignalled) ==
    /\ sizeState.pc = "while"
    /\ loopCondition
    /\ wasSignalled => sizeArgs.interrupter
    /\ LET voxelCount == maskActiveVoxelCount(sizeArgs.positions, sizeState.voxelSize)
           volume == sizeState.voxelSize * sizeState.voxelSize * sizeState.voxelSize * voxelCount
           sized == voxelSizeFromVolume(volume, sizeState.targetVoxelCount)
           counted == [sizeState EXCEPT !.previousVoxelCount = sizeState.voxelCount,
                                        !.voxelCount = voxelCount,
                                        !.volume = volume,
                                        !.volumeBefore = sizeState.previousVolume,
                                        !.previousVoxelSize = sizeState.voxelSize,
                                        !.iterations = @ + 1]
       IN  sizeState' =
             IF wasSignalled THEN [sizeState EXCEPT !.pc = "end", !.iterations = @ + 1]
             ELSE IF volume >= sizeState.previousVolume THEN [counted EXCEPT !.pc = "end"]
             ELSE IF ~sized.valid THEN [counted EXCEPT !.pc = "end", !.previousVolume = volume]
             ELSE IF 10 * sized.voxelSize > 9 * sizeState.voxelSize
                  THEN [counted EXCEPT !.pc = "end", !.previousVolume = volume,
                                       !.voxelSize = sized.voxelSize]
             ELSE [counted EXCEPT !.previousVolume = volume, !.voxelSize = sized.voxelSize]
    /\ UNCHANGED <<sizeArgs, coreVars, statVars, quadVars>>

\* The loop's condition fails.
loopExit ==
    /\ sizeState.pc = "while"
    /\ ~loopCondition
    /\ sizeState' = [sizeState EXCEPT !.pc = "end"]
    /\ UNCHANGED <<sizeArgs, coreVars, statVars, quadVars>>

\* return Local::truncate(voxelSize, decimalPlaces)
sizeReturn ==
    /\ sizeState.pc = "end"
    /\ sizeState' = [sizeState EXCEPT !.pc = "returned",
                                      !.voxelSize = truncate(sizeState.voxelSize, sizeArgs.decimalPlaces)]
    /\ UNCHANGED <<sizeArgs, coreVars, statVars, quadVars>>

\* The points: three in a plane, two of them on a line with the origin,
\* and a cluster of two away from them.
PositionChoices ==
    <<(<<0, 0, 0>>), (<<0, 16, 0>>), (<<0, 0, 8>>), (<<20, 20, 20>>), (<<21, 21, 21>>)>>

\* The lists of up to MaxPositions points, one for each choice of points
\* (the order of the points is of no consequence to the bounding box and
\* to the mask).
PositionLists ==
    UNION {{[j \in 1..count |-> PositionChoices[pick[j]]] :
                pick \in {q \in [1..count -> DOMAIN PositionChoices] :
                             \A j \in 1..(count - 1) : q[j] <= q[j + 1]}} :
           count \in 0..MaxPositions}

InitSize ==
    /\ Constructed(GridOf(TwoLeaves, RowOn, 1, 54), FALSE)
    /\ EmptyTree /\ NoPoints /\ NoStats /\ NoQuad
    /\ NoSize

NextSize ==
    \/ /\ sizeState.pc = "idle"
       /\ \E positions \in PositionLists, pointsPerVoxel \in 0..2, decimalPlaces \in {0, 5},
             interrupter \in BOOLEAN :
               computeVoxelSize(positions, pointsPerVoxel, decimalPlaces, interrupter)
    \/ \E wasSignalled \in BOOLEAN : loopBody(wasSignalled)
    \/ loopExit
    \/ sizeReturn

\* A call in progress goes on.
SpecSize == InitSize /\ [][NextSize]_vars /\ WF_vars(loopBody(FALSE) \/ loopExit \/ sizeReturn)

\* A turn of the loop that follows another.
NextTurn ==
    /\ sizeState.pc = "while"
    /\ sizeState.iterations >= 1
    /\ sizeState'.iterations = sizeState.iterations + 1

====
